---- MODULE Spec2Model ----
(***************************************************************************)
(* Client side of the dating application: the three slice reducers (user,  *)
(* swipe, chat), the root reducer that composes them, the dispatch-bound   *)
(* action helpers, the HTTP client's request(), the WebSocket client and   *)
(* the chat screen, the swipe deck and the onboarding modal.               *)
(*                                                                         *)
(* JavaScript values of arbitrary type (payloads, ids, errors, array       *)
(* elements, object fields) are tagged records [t |-> type, v |-> value].  *)
(* Slots whose type the code fixes are plain TLA+ values: an array is a    *)
(* sequence, a keyed object a function on its keys, Boolean(x) a BOOLEAN,  *)
(* a counter an integer.                                                   *)
(***************************************************************************)
EXTENDS Integers, Sequences, FiniteSets, TLC

VARIABLES
    state,   \* the root state tree {user, swipe, chat} held by useReducer
    call,    \* the most recent call made on the store (helper name and arguments)
    threw,   \* TRUE once a reducer has thrown (the render that runs it fails)
    http,    \* one request() call of the HTTP client
    wsClient, \* one client made by createWsClient, and the last operation on it
    screen,  \* the chat screen (ChatWindow): its hooks, refs, effects and requests
    deck,    \* the swipe deck (SwipeDeck): its recommendation loads
    modal    \* the onboarding modal (OnboardingModal): its form and its save

vars == <<state, call, threw, http, wsClient, screen, deck, modal>>

(***************************************************************************)
(* Bounds of the model.                                                    *)
(***************************************************************************)
MaxQueue == 3      \* longest swipe queue explored
MaxConvs == 2      \* longest conversations list explored
MaxMsgs == 2       \* longest message list of one conversation explored
MaxUnread == 2     \* largest absolute value of an unread counter explored

(***************************************************************************)
(* JavaScript values and the language operations the code applies to them. *)
(***************************************************************************)
Undefined == [t |-> "undefined"]
Null == [t |-> "null"]
Str(s) == [t |-> "str", v |-> s]
Num(n) == [t |-> "num", v |-> n]
Bool(b) == [t |-> "bool", v |-> b]
Arr(s) == [t |-> "arr", v |-> s]
Obj(r) == [t |-> "obj", v |-> r]

EmptyObject == [k \in {} |-> Undefined]

\* ToBoolean: what `!x`, `x || y` and Boolean(x) test.
ToBoolean(x) ==
    CASE x.t = "undefined" -> FALSE
      [] x.t = "null" -> FALSE
      [] x.t = "bool" -> x.v
      [] x.t = "str" -> x.v # ""
      [] x.t = "num" -> x.v # 0
      [] OTHER -> TRUE

\* x === undefined || x === null: what `??` tests, and what makes `x.k` throw.
Nullish(x) == x.t \in {"undefined", "null"}

\* x || d
OrElse(x, d) == IF ToBoolean(x) THEN x ELSE d

\* x || d in the place of x ??  d: every falsy x gives way to d.
CoalesceFalsy(x, d) == IF ToBoolean(x) THEN x ELSE d

\* x ?? d
Coalesce(x, d) == IF Nullish(x) THEN d ELSE x

\* Array.isArray(x)
IsArray(x) == x.t = "arr"

\* x.k for a non-nullish x: the own field of an object, undefined otherwise.
Prop(x, k) == IF x.t = "obj" /\ k \in DOMAIN x.v THEN x.v[k] ELSE Undefined

\* The own enumerable fields `...x` copies (none for null, undefined, numbers, booleans).
Spread(x) == IF x.t = "obj" THEN x.v ELSE EmptyObject

\* { ...a, ...b }
Merge(a, b) ==
    Obj([k \in DOMAIN Spread(a) \cup DOMAIN Spread(b) |->
            IF k \in DOMAIN Spread(b) THEN Spread(b)[k] ELSE Spread(a)[k]])

\* The property key a conversation id indexes a keyed object with (ids are strings).
PropertyKey(id) == id.v

\* m[key] of a keyed object, undefined-or-default when the key is absent: (m[key] || d).
Lookup(m, key, d) == IF key \in DOMAIN m THEN m[key] ELSE d

\* { ...m, [key]: val }
Put(m, key, val) == [k \in DOMAIN m \cup {key} |-> IF k = key THEN val ELSE m[k]]

\* ToNumber of the addend of `current + by` (numbers, null and booleans).
ToNumber(x) ==
    CASE x.t = "num" -> x.v
      [] x.t = "bool" -> (IF x.v THEN 1 ELSE 0)
      [] OTHER -> 0

Min(a, b) == IF a < b THEN a ELSE b
Max(a, b) == IF a > b THEN a ELSE b

\* The result of applying a reducer: the state it returns, or a thrown TypeError.
Ret(s) == [threw |-> FALSE, state |-> s]
Throw == [threw |-> TRUE]

\* An action object { type, payload }; a helper that passes no payload leaves it undefined.
Action(type, payload) == [type |-> type, payload |-> payload]

(***************************************************************************)
(* User slice.                                                             *)
(***************************************************************************)
initialUserState ==
    [me |-> Null, loading |-> FALSE, error |-> Null, onboardingDone |-> FALSE]

UserTypes ==
    {"user/setUser", "user/clearUser", "user/setLoading", "user/setError",
     "user/setOnboardingDone"}

\* userReducer with action types that are not namespaced by slice: it answers to
\* every slice's setLoading.
userReducerSharedTypes(s, action) ==
    CASE action.type = "user/setUser" ->
            Ret([s EXCEPT !.me = action.payload, !.loading = FALSE, !.error = Null])
      [] action.type = "user/clearUser" ->
            Ret([s EXCEPT !.me = Null])
      [] action.type \in {"user/setLoading", "swipe/setLoading", "chat/setLoading"} ->
            Ret([s EXCEPT !.loading = ToBoolean(action.payload)])
      [] action.type = "user/setError" ->
            Ret([s EXCEPT !.error = Coalesce(action.payload, Str("Unknown error")),
                          !.loading = FALSE])
      [] action.type = "user/setOnboardingDone" ->
            Ret([s EXCEPT !.onboardingDone = ToBoolean(action.payload)])
      [] OTHER -> Ret(s)

userReducer(s, action) ==
    CASE action.type = "user/setUser" ->
            Ret([s EXCEPT !.me = action.payload, !.loading = FALSE, !.error = Null])
      [] action.type = "user/clearUser" ->
            Ret([s EXCEPT !.me = Null])
      [] action.type = "user/setLoading" ->
            Ret([s EXCEPT !.loading = ToBoolean(action.payload)])
      [] action.type = "user/setError" ->
            Ret([s EXCEPT !.error = Coalesce(action.payload, Str("Unknown error")),
                          !.loading = FALSE])
      [] action.type = "user/setOnboardingDone" ->
            Ret([s EXCEPT !.onboardingDone = ToBoolean(action.payload)])
      [] OTHER -> Ret(s)

(***************************************************************************)
(* Swipe slice.                                                            *)
(***************************************************************************)
initialSwipeState ==
    [queue |-> <<>>, index |-> 0, loading |-> FALSE, error |-> Null, lastAction |-> Null]

SwipeTypes ==
    {"swipe/setQueue", "swipe/appendQueue", "swipe/next", "swipe/like", "swipe/pass",
     "swipe/reset", "swipe/setLoading", "swipe/setError"}

\* NextIndex without the clamp to the last card.
NextIndexUnclamped(s) == s.index + 1

\* Math.min(index + 1, Math.max(queue.length - 1, 0))
NextIndex(s) == Min(s.index + 1, Max(Len(s.queue) - 1, 0))

swipeReducer(s, action) ==
    CASE action.type = "swipe/setQueue" ->
            Ret([s EXCEPT !.queue = IF IsArray(action.payload) THEN action.payload.v ELSE <<>>,
                          !.index = 0, !.loading = FALSE, !.error = Null])
      [] action.type = "swipe/appendQueue" ->
            Ret([s EXCEPT !.queue =
                    s.queue \o (IF IsArray(action.payload) THEN action.payload.v ELSE <<>>)])
      [] action.type = "swipe/next" ->
            Ret([s EXCEPT !.index = NextIndex(s)])
      [] action.type = "swipe/like" ->
            Ret([s EXCEPT !.lastAction =
                    Obj([action |-> Str("like"), targetId |-> action.payload])])
      [] action.type = "swipe/pass" ->
            Ret([s EXCEPT !.lastAction =
                    Obj([action |-> Str("pass"), targetId |-> action.payload])])
      [] action.type = "swipe/reset" ->
            Ret(initialSwipeState)
      [] action.type = "swipe/setLoading" ->
            Ret([s EXCEPT !.loading = ToBoolean(action.payload)])
      [] action.type = "swipe/setError" ->
            Ret([s EXCEPT !.error = Coalesce(action.payload, Str("Unknown error")),
                          !.loading = FALSE])
      [] OTHER -> Ret(s)

(***************************************************************************)
(* Chat slice.                                                             *)
(***************************************************************************)
initialChatState ==
    [conversations |-> <<>>, messagesByConvId |-> EmptyObject,
     activeConversationId |-> Null, loading |-> FALSE, error |-> Null,
     unreadByConvId |-> EmptyObject]

ChatTypes ==
    {"chat/setConversations", "chat/upsertConversation", "chat/setActiveConversation",
     "chat/setMessages", "chat/appendMessage", "chat/prependMessages",
     "chat/incrementUnread", "chat/clearUnread", "chat/setLoading", "chat/setError",
     "chat/reset"}

\* c.id === conv.id, for elements and payloads that are not nullish.
SameId(c, conv) == Prop(c, "id") = Prop(conv, "id")

\* The positions findIndex's callback visits: up to and including the first match.
Visited(convs, conv) ==
    {i \in 1..Len(convs) :
        \A j \in 1..(i - 1) :
            ~Nullish(convs[j]) /\ ~Nullish(conv) /\ ~SameId(convs[j], conv)}

\* The callback reads c.id and then conv.id: a nullish element or payload it visits throws.
FindIndexThrows(convs, conv) ==
    \E i \in Visited(convs, conv) : Nullish(convs[i]) \/ Nullish(conv)

\* state.conversations.findIndex((c) => c.id === conv.id), 1-based; 0 stands for -1.
FindIndex(convs, conv) ==
    LET hits == {i \in Visited(convs, conv) : SameId(convs[i], conv)}
    IN IF hits = {} THEN 0 ELSE CHOOSE i \in hits : \A j \in hits : i <= j

\* [conv, ...convs]: nextConvs.unshift(conv)
Unshift(convs, conv) == <<conv>> \o convs

\* UpsertConversation without the lookup of an existing entry.
UpsertConversationAlwaysUnshift(s, conv) ==
    Ret([s EXCEPT !.conversations = Unshift(s.conversations, conv)])

\* UpsertConversation that puts conv in the place of the existing entry, unmerged.
UpsertConversationReplaces(s, conv) ==
    IF FindIndexThrows(s.conversations, conv) THEN Throw
    ELSE LET idx == FindIndex(s.conversations, conv)
         IN IF idx >= 1
            THEN Ret([s EXCEPT !.conversations[idx] = conv])
            ELSE Ret([s EXCEPT !.conversations = Unshift(s.conversations, conv)])

UpsertConversation(s, conv) ==
    IF FindIndexThrows(s.conversations, conv) THEN Throw
    ELSE LET idx == FindIndex(s.conversations, conv)
         IN IF idx >= 1
            THEN Ret([s EXCEPT !.conversations[idx] = Merge(s.conversations[idx], conv)])
            ELSE Ret([s EXCEPT !.conversations = Unshift(s.conversations, conv)])

\* const { ... } = action.payload || {}
Destructure(payload) == OrElse(payload, Obj(EmptyObject))

\* SetMessages without `...state.messagesByConvId`: the other entries are dropped.
SetMessagesDropsOthers(s, payload) ==
    LET p == Destructure(payload)
        conversationId == Prop(p, "conversationId")
        messages == Prop(p, "messages")
    IN IF ~ToBoolean(conversationId) THEN s
       ELSE [s EXCEPT !.messagesByConvId =
                Put(EmptyObject, PropertyKey(conversationId),
                    IF IsArray(messages) THEN messages.v ELSE <<>>)]

SetMessages(s, payload) ==
    LET p == Destructure(payload)
        conversationId == Prop(p, "conversationId")
        messages == Prop(p, "messages")
    IN IF ~ToBoolean(conversationId) THEN s
       ELSE [s EXCEPT !.messagesByConvId =
                Put(s.messagesByConvId, PropertyKey(conversationId),
                    IF IsArray(messages) THEN messages.v ELSE <<>>)]

\* PrependMessages that puts the new messages after the existing ones.
PrependMessagesAppends(s, payload) ==
    LET p == Destructure(payload)
        conversationId == Prop(p, "conversationId")
        messages == Prop(p, "messages")
    IN IF ~ToBoolean(conversationId) \/ ~IsArray(messages) THEN s
       ELSE LET existing == Lookup(s.messagesByConvId, PropertyKey(conversationId), <<>>)
            IN [s EXCEPT !.messagesByConvId =
                    Put(s.messagesByConvId, PropertyKey(conversationId),
                        existing \o messages.v)]

PrependMessages(s, payload) ==
    LET p == Destructure(payload)
        conversationId == Prop(p, "conversationId")
        messages == Prop(p, "messages")
    IN IF ~ToBoolean(conversationId) \/ ~IsArray(messages) THEN s
       ELSE LET existing == Lookup(s.messagesByConvId, PropertyKey(conversationId), <<>>)
            IN [s EXCEPT !.messagesByConvId =
                    Put(s.messagesByConvId, PropertyKey(conversationId),
                        messages.v \o existing)]

\* AppendMessage without the check of conversationId: a missing id is used as a key.
AppendMessageUnchecked(s, payload) ==
    LET p == Destructure(payload)
        conversationId == Prop(p, "conversationId")
        message == Prop(p, "message")
        key == IF conversationId.t = "str" THEN conversationId.v ELSE conversationId.t
    IN IF ~ToBoolean(message) THEN s
       ELSE LET existing == Lookup(s.messagesByConvId, key, <<>>)
            IN [s EXCEPT !.messagesByConvId =
                    Put(s.messagesByConvId, key, Append(existing, message))]

AppendMessage(s, payload) ==
    LET p == Destructure(payload)
        conversationId == Prop(p, "conversationId")
        message == Prop(p, "message")
    IN IF ~ToBoolean(conversationId) \/ ~ToBoolean(message) THEN s
       ELSE LET existing == Lookup(s.messagesByConvId, PropertyKey(conversationId), <<>>)
            IN [s EXCEPT !.messagesByConvId =
                    Put(s.messagesByConvId, PropertyKey(conversationId),
                        Append(existing, message))]

\* IncrementUnread that stores the amount in place of the sum.
IncrementUnreadOverwrites(s, payload) ==
    LET p == Destructure(payload)
        conversationId == Prop(p, "conversationId")
        by == IF Prop(p, "by") = Undefined THEN Num(1) ELSE Prop(p, "by")
    IN IF ~ToBoolean(conversationId) THEN s
       ELSE [s EXCEPT !.unreadByConvId =
                Put(s.unreadByConvId, PropertyKey(conversationId), ToNumber(by))]

\* by = 1 applies when the field is undefined (absent), not when it is null.
IncrementUnread(s, payload) ==
    LET p == Destructure(payload)
        conversationId == Prop(p, "conversationId")
        by == IF Prop(p, "by") = Undefined THEN Num(1) ELSE Prop(p, "by")
    IN IF ~ToBoolean(conversationId) THEN s
       ELSE LET current == Lookup(s.unreadByConvId, PropertyKey(conversationId), 0)
            IN [s EXCEPT !.unreadByConvId =
                    Put(s.unreadByConvId, PropertyKey(conversationId),
                        current + ToNumber(by))]

ClearUnread(s, payload) ==
    LET p == Destructure(payload)
        conversationId == Prop(p, "conversationId")
    IN IF ~ToBoolean(conversationId) THEN s
       ELSE [s EXCEPT !.unreadByConvId =
                Put(s.unreadByConvId, PropertyKey(conversationId), 0)]

chatReducer(s, action) ==
    CASE action.type = "chat/setConversations" ->
            Ret([s EXCEPT !.conversations =
                              IF IsArray(action.payload) THEN action.payload.v ELSE <<>>,
                          !.loading = FALSE, !.error = Null])
      [] action.type = "chat/upsertConversation" ->
            UpsertConversation(s, action.payload)
      [] action.type = "chat/setActiveConversation" ->
            Ret([s EXCEPT !.activeConversationId = OrElse(action.payload, Null)])
      [] action.type = "chat/setMessages" -> Ret(SetMessages(s, action.payload))
      [] action.type = "chat/prependMessages" -> Ret(PrependMessages(s, action.payload))
      [] action.type = "chat/appendMessage" -> Ret(AppendMessage(s, action.payload))
      [] action.type = "chat/incrementUnread" -> Ret(IncrementUnread(s, action.payload))
      [] action.type = "chat/clearUnread" -> Ret(ClearUnread(s, action.payload))
      [] action.type = "chat/setLoading" ->
            Ret([s EXCEPT !.loading = ToBoolean(action.payload)])
      [] action.type = "chat/setError" ->
            Ret([s EXCEPT !.error = Coalesce(action.payload, Str("Unknown error")),
                          !.loading = FALSE])
      [] action.type = "chat/reset" -> Ret(initialChatState)
      [] OTHER -> Ret(s)

(***************************************************************************)
(* Root store.                                                             *)
(***************************************************************************)
initialState ==
    [user |-> initialUserState, swipe |-> initialSwipeState, chat |-> initialChatState]

rootReducer(st, action) ==
    LET u == userReducer(st.user, action)
        w == swipeReducer(st.swipe, action)
        c == chatReducer(st.chat, action)
    IN IF u.threw \/ w.threw \/ c.threw THEN Throw
       ELSE Ret([user |-> u.state, swipe |-> w.state, chat |-> c.state])

\* The dispatches one helper call makes, reduced in order; a throw ends them.
RECURSIVE Reduce(_, _)
Reduce(st, actions) ==
    IF actions = <<>> THEN Ret(st)
    ELSE LET r == rootReducer(st, Head(actions))
         IN IF r.threw THEN Throw ELSE Reduce(r.state, Tail(actions))

\* The states the exploration keeps: every list and counter within the model's bounds.
WithinBounds(st) ==
    /\ Len(st.swipe.queue) <= MaxQueue
    /\ Len(st.chat.conversations) <= MaxConvs
    /\ \A k \in DOMAIN st.chat.messagesByConvId :
            Len(st.chat.messagesByConvId[k]) <= MaxMsgs
    /\ \A k \in DOMAIN st.chat.unreadByConvId :
            /\ st.chat.unreadByConvId[k] <= MaxUnread
            /\ st.chat.unreadByConvId[k] >= 0 - MaxUnread

\* The dispatches of one helper call, run through the root reducer. A reducer that
\* throws fails the render that runs it: the tree unmounts and the store is gone.
Reducing(actions) ==
    /\ ~threw
    /\ LET r == Reduce(state, actions)
       IN /\ IF r.threw THEN TRUE ELSE WithinBounds(r.state)
          /\ threw' = r.threw
          /\ state' = IF r.threw THEN state ELSE r.state

\* A helper called from outside the chat screen: the screen keeps what it holds.
Dispatch(actions) ==
    /\ Reducing(actions)
    /\ UNCHANGED <<http, wsClient, screen, deck, modal>>

\* The record of a helper call: its name and its arguments.
Called(name, args) == call' = [api |-> name, args |-> args]

(***************************************************************************)
(* Inputs the calls draw their arguments from.                             *)
(***************************************************************************)
P1 == Obj([id |-> Str("p1")])
P2 == Obj([id |-> Str("p2")])

\* Arguments of setQueue / appendQueue: arrays of profile cards, and non-arrays.
QueueArgs ==
    {Arr(<<>>), Arr(<<P1>>), Arr(<<P2>>), Arr(<<P1, P2>>), Undefined, Str("p1")}

TargetIds == {Str("p1"), Str("p2"), Undefined}
LoadingArgs == {Bool(TRUE), Bool(FALSE), Undefined}
ErrorArgs == {Str("boom"), Str(""), Null, Undefined}

(***************************************************************************)
(* swipeActions(dispatch): the helpers bound to the store's dispatch.      *)
(***************************************************************************)
SwipeSetQueue ==
    \E items \in QueueArgs :
        /\ Called("swipe.setQueue", <<items>>)
        /\ Dispatch(<<Action("swipe/setQueue", items)>>)

SwipeAppendQueue ==
    \E items \in QueueArgs :
        /\ Called("swipe.appendQueue", <<items>>)
        /\ Dispatch(<<Action("swipe/appendQueue", items)>>)

SwipeNext ==
    /\ Called("swipe.next", <<>>)
    /\ Dispatch(<<Action("swipe/next", Undefined)>>)

\* like() without its second dispatch: the decision is recorded, the deck stays.
SwipeLikeWithoutNext ==
    \E targetId \in TargetIds :
        /\ Called("swipe.like", <<targetId>>)
        /\ Dispatch(<<Action("swipe/like", targetId)>>)

SwipeLike ==
    \E targetId \in TargetIds :
        /\ Called("swipe.like", <<targetId>>)
        /\ Dispatch(<<Action("swipe/like", targetId), Action("swipe/next", Undefined)>>)

SwipePass ==
    \E targetId \in TargetIds :
        /\ Called("swipe.pass", <<targetId>>)
        /\ Dispatch(<<Action("swipe/pass", targetId), Action("swipe/next", Undefined)>>)

SwipeReset ==
    /\ Called("swipe.reset", <<>>)
    /\ Dispatch(<<Action("swipe/reset", Undefined)>>)

SwipeSetLoading ==
    \E isLoading \in LoadingArgs :
        /\ Called("swipe.setLoading", <<isLoading>>)
        /\ Dispatch(<<Action("swipe/setLoading", isLoading)>>)

SwipeSetError ==
    \E err \in ErrorArgs :
        /\ Called("swipe.setError", <<err>>)
        /\ Dispatch(<<Action("swipe/setError", err)>>)

(***************************************************************************)
(* chatActions(dispatch).                                                  *)
(***************************************************************************)
ConvIds == {Str("c1"), Str("c2")}

\* Ids the reducers treat as missing.
MissingIds == {Undefined, Null, Str(""), Num(0)}

\* The conversation ids the helpers are called with.
IdArgs == ConvIds \cup {Undefined, Str("")}

\* Two records of conversation c1, each with a field the other lacks and with a nested
\* lastMessage of its own, and a record of c2.
CA == Obj([id |-> Str("c1"), title |-> Str("A"),
           lastMessage |-> Obj([text |-> Str("yo"), ts |-> Num(1)])])
CA2 == Obj([id |-> Str("c1"), preview |-> Str("hi"),
            lastMessage |-> Obj([text |-> Str("hi")])])
CB == Obj([id |-> Str("c2"), title |-> Str("B")])

ConversationArgs == {CA, CA2, CB, Undefined}
ConversationListArgs ==
    {Arr(<<>>), Arr(<<CA>>), Arr(<<CA, CB>>), Arr(<<CA, CA2>>), Undefined}

M1 == Obj([id |-> Str("m1"), ts |-> Num(1)])
M2 == Obj([id |-> Str("m2"), ts |-> Num(2)])

MessageArgs == {M1, M2, Undefined}
MessageListArgs ==
    {Arr(<<>>), Arr(<<M1>>), Arr(<<M2>>), Arr(<<M1, M2>>), Undefined}

ByArgs == {Undefined, Num(1), Num(2), Num(0 - 1)}

ChatSetConversations ==
    \E list \in ConversationListArgs :
        /\ Called("chat.setConversations", <<list>>)
        /\ Dispatch(<<Action("chat/setConversations", list)>>)

ChatUpsertConversation ==
    \E conv \in ConversationArgs :
        /\ Called("chat.upsertConversation", <<conv>>)
        /\ Dispatch(<<Action("chat/upsertConversation", conv)>>)

\* setActiveConversation without its second dispatch.
SetActiveConversationOnly(conversationId) ==
    <<Action("chat/setActiveConversation", conversationId)>>

\* setActiveConversation dispatches SET_ACTIVE_CONVERSATION and then, for a truthy id,
\* CLEAR_UNREAD.
SetActiveConversationDispatches(conversationId) ==
    <<Action("chat/setActiveConversation", conversationId)>>
    \o (IF ToBoolean(conversationId)
        THEN <<Action("chat/clearUnread", Obj([conversationId |-> conversationId]))>>
        ELSE <<>>)

ChatSetActiveConversation ==
    \E conversationId \in IdArgs :
        /\ Called("chat.setActiveConversation", <<conversationId>>)
        /\ Dispatch(SetActiveConversationDispatches(conversationId))

ChatSetMessages ==
    \E conversationId \in IdArgs, messages \in MessageListArgs :
        /\ Called("chat.setMessages", <<conversationId, messages>>)
        /\ Dispatch(<<Action("chat/setMessages",
                Obj([conversationId |-> conversationId, messages |-> messages]))>>)

ChatPrependMessages ==
    \E conversationId \in IdArgs, messages \in MessageListArgs :
        /\ Called("chat.prependMessages", <<conversationId, messages>>)
        /\ Dispatch(<<Action("chat/prependMessages",
                Obj([conversationId |-> conversationId, messages |-> messages]))>>)

ChatAppendMessage ==
    \E conversationId \in IdArgs, message \in MessageArgs :
        /\ Called("chat.appendMessage", <<conversationId, message>>)
        /\ Dispatch(<<Action("chat/appendMessage",
                Obj([conversationId |-> conversationId, message |-> message]))>>)

\* incrementUnread(conversationId, by = 1): an omitted amount is 1 before it is dispatched.
IncrementUnreadDispatches(conversationId, by) ==
    <<Action("chat/incrementUnread",
             Obj([conversationId |-> conversationId,
                  by |-> IF by = Undefined THEN Num(1) ELSE by]))>>

ChatIncrementUnread ==
    \E conversationId \in IdArgs, by \in ByArgs :
        /\ Called("chat.incrementUnread", <<conversationId, by>>)
        /\ Dispatch(IncrementUnreadDispatches(conversationId, by))

ChatClearUnread ==
    \E conversationId \in IdArgs :
        /\ Called("chat.clearUnread", <<conversationId>>)
        /\ Dispatch(<<Action("chat/clearUnread", Obj([conversationId |-> conversationId]))>>)

ChatSetLoading ==
    \E isLoading \in LoadingArgs :
        /\ Called("chat.setLoading", <<isLoading>>)
        /\ Dispatch(<<Action("chat/setLoading", isLoading)>>)

ChatSetError ==
    \E err \in ErrorArgs :
        /\ Called("chat.setError", <<err>>)
        /\ Dispatch(<<Action("chat/setError", err)>>)

\* reset() dispatching SET_CONVERSATIONS([]) in place of RESET.
ChatResetConversationsOnly ==
    /\ Called("chat.reset", <<>>)
    /\ Dispatch(<<Action("chat/setConversations", Arr(<<>>))>>)

ChatReset ==
    /\ Called("chat.reset", <<>>)
    /\ Dispatch(<<Action("chat/reset", Undefined)>>)

(***************************************************************************)
(* userActions(dispatch).                                                  *)
(***************************************************************************)
U1 == Obj([id |-> Str("u1")])

UserSetUser ==
    \E user \in {U1, Undefined} :
        /\ Called("user.setUser", <<user>>)
        /\ Dispatch(<<Action("user/setUser", user)>>)

UserClearUser ==
    /\ Called("user.clearUser", <<>>)
    /\ Dispatch(<<Action("user/clearUser", Undefined)>>)

UserSetLoading ==
    \E isLoading \in LoadingArgs :
        /\ Called("user.setLoading", <<isLoading>>)
        /\ Dispatch(<<Action("user/setLoading", isLoading)>>)

UserSetError ==
    \E err \in ErrorArgs :
        /\ Called("user.setError", <<err>>)
        /\ Dispatch(<<Action("user/setError", err)>>)

UserSetOnboardingDone ==
    \E done \in LoadingArgs :
        /\ Called("user.setOnboardingDone", <<done>>)
        /\ Dispatch(<<Action("user/setOnboardingDone", done)>>)

(***************************************************************************)
(* HTTP client: request(url, options) over window.fetch.                   *)
(***************************************************************************)
DefaultTimeout == 15000
AbortedStatus == 499

\* options.timeout as the caller passes it; `timeout = 15000` fills in an omitted one.
TimeoutArgs == {Undefined, Num(50), Num(0), Null}
EffectiveTimeout(timeout) == IF timeout = Undefined THEN Num(DefaultTimeout) ELSE timeout

\* createTimeoutSignal(ms) returns undefined, and arms no timer, unless ms is a
\* positive number.
createTimeoutSignal(ms) == IF ms.t = "num" /\ ms.v > 0 THEN "armed" ELSE "none"

\* t.cancel() that clears nothing.
CancelNothing(timer) == timer

\* t.cancel(): clearTimeout on the timer, when there is one.
Cancel(timer) == IF timer = "armed" THEN "cleared" ELSE timer

\* What controller.abort(new Error('Request timeout')) makes the pending fetch reject
\* with: the reason it was given where the platform implements abort(reason), an
\* AbortError DOMException where abort() ignores its argument.
TimeoutReason == Obj([name |-> Str("Error"), message |-> Str("Request timeout")])
AbortDOMException ==
    Obj([name |-> Str("AbortError"), message |-> Str("The operation was aborted.")])
FetchAbortRejection(reasonHonoured) ==
    IF reasonHonoured THEN TimeoutReason ELSE AbortDOMException

\* The rejection of fetch itself when the network fails.
NetworkError == Obj([name |-> Str("TypeError"), message |-> Str("Failed to fetch")])

\* Responses the server can send: status, content type and body.
Statuses == {200, 404, 500}
ContentTypes == {Str("application/json"), Str("text/plain"), Null}
ErrorBody == Obj([error |-> Str("not found")])
Bodies ==
    {[kind |-> "json", text |-> "{\"error\":\"not found\"}"],
     [kind |-> "text", text |-> "oops"],
     [kind |-> "empty", text |-> ""],
     [kind |-> "broken", text |-> ""]}
Responses ==
    [status : Statuses, contentType : ContentTypes, body : Bodies]

\* res.ok
Ok(res) == res.status >= 200 /\ res.status <= 299

\* parseResponse(res): JSON when the content type says so (null when it does not
\* parse), else the text (null when empty or unreadable).
parseResponse(res) ==
    LET contentType == OrElse(res.contentType, Str(""))
    IN IF contentType = Str("application/json")
       THEN (IF res.body.kind = "json" THEN ErrorBody ELSE Null)
       ELSE (IF res.body.kind = "broken" THEN Null
             ELSE OrElse(Str(res.body.text), Null))

\* HttpError without `err.data = payload`.
HttpErrorWithoutPayload(res, payload) ==
    Obj([name |-> Str("Error"), message |-> Str("HTTP error"),
         status |-> Num(res.status), data |-> Null])

\* The error thrown for a non-success status.
HttpError(res, payload) ==
    Obj([name |-> Str("Error"), message |-> Str("HTTP error"),
         status |-> Num(res.status), data |-> payload])

\* catch (e): an AbortError becomes the 'Request aborted' error with status 499 and
\* data null; anything else is rethrown as it is.
Catch(e) ==
    IF Prop(e, "name") = Str("AbortError")
    THEN Obj([name |-> Str("Error"), message |-> Str("Request aborted"),
              status |-> Num(AbortedStatus), data |-> Null])
    ELSE e

HttpIdle ==
    [pc |-> "idle", timer |-> "none", reasonHonoured |-> FALSE, cause |-> "none",
     res |-> Null, result |-> Undefined]

\* request(url, { timeout }) builds the call, arms the timer and starts fetch.
HttpRequest ==
    /\ http.pc \in {"idle", "resolved", "rejected"}
    /\ \E timeout \in TimeoutArgs, reasonHonoured \in BOOLEAN :
        http' = [HttpIdle EXCEPT
                    !.pc = "fetching",
                    !.timer = createTimeoutSignal(EffectiveTimeout(timeout)),
                    !.reasonHonoured = reasonHonoured]
    /\ UNCHANGED <<state, call, threw, wsClient, screen, deck, modal>>

\* The timeout elapses before fetch settles: the timer's callback aborts the signal.
HttpTimerFires ==
    /\ http.pc = "fetching"
    /\ http.timer = "armed"
    /\ http' = [http EXCEPT !.timer = "fired"]
    /\ UNCHANGED <<state, call, threw, wsClient, screen, deck, modal>>

\* fetch rejects because its signal was aborted; the catch block settles the call.
HttpFetchAborted ==
    /\ http.pc = "fetching"
    /\ http.timer = "fired"
    /\ http' = [http EXCEPT !.pc = "rejected", !.cause = "timeout",
                            !.timer = Cancel(http.timer),
                            !.result = Catch(FetchAbortRejection(http.reasonHonoured))]
    /\ UNCHANGED <<state, call, threw, wsClient, screen, deck, modal>>

\* fetch rejects with a network failure.
HttpFetchFails ==
    /\ http.pc = "fetching"
    /\ http.timer # "fired"
    /\ http' = [http EXCEPT !.pc = "rejected", !.cause = "network",
                            !.timer = Cancel(http.timer),
                            !.result = Catch(NetworkError)]
    /\ UNCHANGED <<state, call, threw, wsClient, screen, deck, modal>>

\* fetch resolves with the response head: the timer is cancelled, the body is awaited.
HttpFetchResolves ==
    /\ http.pc = "fetching"
    /\ http.timer # "fired"
    /\ \E res \in Responses :
        http' = [http EXCEPT !.pc = "parsing", !.timer = Cancel(http.timer), !.res = res]
    /\ UNCHANGED <<state, call, threw, wsClient, screen, deck, modal>>

\* parseResponse returns: a non-success status throws into the catch block, a
\* success returns { data, status, ok, headers }.
HttpBodyParsed ==
    /\ http.pc = "parsing"
    /\ LET payload == parseResponse(http.res)
       IN IF ~Ok(http.res)
          THEN http' = [http EXCEPT !.pc = "rejected", !.cause = "status",
                                    !.timer = Cancel(http.timer),
                                    !.result = Catch(HttpError(http.res, payload))]
          ELSE http' = [http EXCEPT !.pc = "resolved",
                                    !.result = Obj([data |-> payload,
                                                    status |-> Num(http.res.status),
                                                    ok |-> Bool(TRUE)])]
    /\ UNCHANGED <<state, call, threw, wsClient, screen, deck, modal>>

(***************************************************************************)
(* WebSocket client: createWsClient(options).                              *)
(***************************************************************************)
MaxSockets == 2     \* most sockets one client constructs

\* The resolved WS base: empty, or a URL.
WsBases == {Str(""), Str("wss://app.test")}

\* options.onMessage: absent, or a callback that throws.
OnMessageArgs == {Undefined, Str("throws")}

\* The closure of a client: the platform it runs on, the WS base it resolved, its
\* onMessage option, `ws` (the readyState of the socket it holds, "null" for none),
\* the number of sockets it has constructed and `subscribers` in insertion order.
NewClient(hasWebSocket, wsBase, onMessage) ==
    [hasWebSocket |-> hasWebSocket, wsBase |-> wsBase, onMessage |-> onMessage,
     ws |-> "null", constructed |-> 0, subscribers |-> <<>>]

\* connect() without the check of a socket that is already open or connecting.
connectAlwaysConstructs(c, constructs) ==
    IF ~c.hasWebSocket THEN [client |-> c, ret |-> FALSE]
    ELSE IF ~ToBoolean(c.wsBase) THEN [client |-> c, ret |-> FALSE]
    ELSE IF ~constructs THEN [client |-> c, ret |-> FALSE]
    ELSE [client |-> [c EXCEPT !.ws = "CONNECTING", !.constructed = @ + 1],
          ret |-> TRUE]

\* connect(): `constructs` says whether new WebSocket(url) returns or throws.
connect(c, constructs) ==
    IF ~c.hasWebSocket THEN [client |-> c, ret |-> FALSE]
    ELSE IF ~ToBoolean(c.wsBase) THEN [client |-> c, ret |-> FALSE]
    ELSE IF c.ws \in {"OPEN", "CONNECTING"} THEN [client |-> c, ret |-> TRUE]
    ELSE IF ~constructs THEN [client |-> c, ret |-> FALSE]
    ELSE [client |-> [c EXCEPT !.ws = "CONNECTING", !.constructed = @ + 1],
          ret |-> TRUE]

\* Payloads of send(): a string, an object, and an object that refers to itself.
Cyclic == [t |-> "cyclic"]
SendArgs == {Str("ping"), Obj([type |-> Str("typing")]), Cyclic}

\* JSON.stringify of an object of string fields; it throws on a cyclic one.
StringifyThrows(payload) == payload = Cyclic
RECURSIVE StringifyFields(_, _)
StringifyFields(fields, keys) ==
    IF keys = {} THEN ""
    ELSE LET k == CHOOSE x \in keys : TRUE
             rest == StringifyFields(fields, keys \ {k})
         IN "\"" \o k \o "\":\"" \o fields[k].v \o "\""
            \o (IF rest = "" THEN "" ELSE "," \o rest)
Stringify(payload) == Str("{" \o StringifyFields(payload.v, DOMAIN payload.v) \o "}")

\* send() without the readyState check.
sendUnchecked(c, payload) ==
    IF payload.t = "str" THEN [ret |-> TRUE, tx |-> payload]
    ELSE IF StringifyThrows(payload) THEN [ret |-> FALSE, tx |-> Null]
    ELSE [ret |-> TRUE, tx |-> Stringify(payload)]

\* send(payload): what it returns and the frame it hands to ws.send (Null for none).
send(c, payload) ==
    IF c.ws # "OPEN" THEN [ret |-> FALSE, tx |-> Null]
    ELSE IF payload.t = "str" THEN [ret |-> TRUE, tx |-> payload]
    ELSE IF StringifyThrows(payload) THEN [ret |-> FALSE, tx |-> Null]
    ELSE [ret |-> TRUE, tx |-> Stringify(payload)]

\* Handlers passed to subscribe(): h2 throws, h3 calls its own unsubscribe and returns,
\* h1 and every other handler returns.
Handlers == {"h1", "h2", "h3"}
Behaviour(h) == CASE h = "h2" -> "throws" [] h = "h3" -> "once" [] OTHER -> "returns"

\* subscribers.add / subscribers.delete on the insertion-ordered Set.
SetAdd(subs, h) ==
    IF \E i \in 1..Len(subs) : subs[i] = h THEN subs ELSE Append(subs, h)

\* subscribers.clear() in the place of subscribers.delete(handler).
SetClear(subs, h) == <<>>

SetDelete(subs, h) == SelectSeq(subs, LAMBDA x : x # h)

\* Frames the server sends, and JSON.parse of them with the raw text as the fallback.
Frames == {"{\"type\":\"message.created\"}", "pong"}

\* Messages and a conversation as the server sends them, under its own field names.
RawM1 == Obj([id |-> Str("m1"), text |-> Str("hey"), senderId |-> Str("u2"), ts |-> Num(1)])
RawM2 == Obj([messageId |-> Str("m2"), body |-> Str("yo"), from |-> Str("u2"),
              createdAt |-> Str("1970-01-01T00:00:00.002Z")])
RawC1 == Obj([conversationId |-> Str("c1"), user |-> Obj([name |-> Str("Ann")])])

\* The JSON texts the model's frames carry, each with the value it parses to.
JsonTexts ==
    {<<"{\"type\":\"message.created\"}", Obj([type |-> Str("message.created")])>>,
     <<"{\"type\":\"message.created\",\"conversationId\":\"c1\",\"message\":m2}",
       Obj([type |-> Str("message.created"), conversationId |-> Str("c1"),
            message |-> RawM2])>>,
     <<"{\"type\":\"message.created\",\"conversationId\":\"c1\",\"message\":m1}",
       Obj([type |-> Str("message.created"), conversationId |-> Str("c1"),
            message |-> RawM1])>>,
     <<"{\"type\":\"message.created\",\"conversationId\":\"c2\",\"message\":m2}",
       Obj([type |-> Str("message.created"), conversationId |-> Str("c2"),
            message |-> RawM2])>>,
     <<"{\"type\":\"message.created\",\"conversationId\":\"c1\"}",
       Obj([type |-> Str("message.created"), conversationId |-> Str("c1")])>>,
     <<"{\"type\":\"typing\",\"conversationId\":\"c1\",\"message\":m1}",
       Obj([type |-> Str("typing"), conversationId |-> Str("c1"), message |-> RawM1])>>,
     <<"{\"type\":\"conversation.updated\",\"conversationId\":\"c1\",\"conversation\":c1}",
       Obj([type |-> Str("conversation.updated"), conversationId |-> Str("c1"),
            conversation |-> RawC1])>>}

ParseOrRaw(text) ==
    IF \E p \in JsonTexts : p[1] = text
    THEN (CHOOSE p \in JsonTexts : p[1] = text)[2]
    ELSE Str(text)

\* forEach without the try/catch around cb(data, evt): the first throw ends it.
RECURSIVE ForEachUnguarded(_, _, _)
ForEachUnguarded(subs, i, called) ==
    IF i > Len(subs) THEN [subscribers |-> subs, called |-> called, escaped |-> FALSE]
    ELSE LET cb == subs[i]
         IN IF Behaviour(cb) = "throws"
            THEN [subscribers |-> subs, called |-> Append(called, cb), escaped |-> TRUE]
            ELSE IF Behaviour(cb) = "once"
            THEN ForEachUnguarded(SetDelete(subs, cb), i, Append(called, cb))
            ELSE ForEachUnguarded(subs, i + 1, Append(called, cb))
FanOutUnguarded(subs) == ForEachUnguarded(subs, 1, <<>>)

\* subscribers.forEach((cb) => { try { cb(data, evt) } catch ... }): the Set is walked
\* live, from position i on; a throw of cb is caught where it is called.
RECURSIVE ForEach(_, _, _)
ForEach(subs, i, called) ==
    IF i > Len(subs) THEN [subscribers |-> subs, called |-> called, escaped |-> FALSE]
    ELSE LET cb == subs[i]
         IN IF Behaviour(cb) = "once"
            THEN ForEach(SetDelete(subs, cb), i, Append(called, cb))
            ELSE ForEach(subs, i + 1, Append(called, cb))
FanOut(subs) == ForEach(subs, 1, <<>>)

\* ws.onmessage(evt): parse, fan out, then options.onMessage(evt) outside any try.
\* `escaped` names whose exception leaves the callback.
onmessage(c, text) ==
    LET f == FanOut(c.subscribers)
    IN [client |-> [c EXCEPT !.subscribers = f.subscribers],
        data |-> ParseOrRaw(text),
        called |-> f.called,
        escaped |-> IF f.escaped THEN "subscriber"
                    ELSE IF c.onMessage # Undefined THEN "onMessage" ELSE "none"]

\* close(code, reason): ws.close() on the socket held, if any.
close(c) ==
    IF c.ws \in {"CONNECTING", "OPEN"} THEN [c EXCEPT !.ws = "CLOSING"] ELSE c

\* The readyState getter: ws ? ws.readyState : WebSocket.CLOSED. `globalWebSocket`
\* says whether the identifier WebSocket is bound where the client runs; if it is not,
\* evaluating WebSocket.CLOSED throws a ReferenceError.
readyState(c, globalWebSocket) ==
    IF c.ws # "null" THEN [threw |-> FALSE, value |-> c.ws]
    ELSE IF globalWebSocket THEN [threw |-> FALSE, value |-> "CLOSED"]
    ELSE [threw |-> TRUE, value |-> "none"]

\* autoConnect alone in the place of autoConnect && realtimeEnabled.
autoConnectsUnflagged(autoConnect, flag) == autoConnect

\* if (autoConnect && realtimeEnabled) connect()
autoConnects(autoConnect, flag) == autoConnect /\ flag

\* No client has been created yet. `closing` counts the sockets the client has
\* replaced while their closing handshake was under way: connect() overwrites `ws`
\* and leaves the handlers of the socket it held attached.
NoClient == [created |-> FALSE, globalWebSocket |-> FALSE,
             c |-> NewClient(FALSE, Str(""), Undefined),
             closing |-> 0,
             last |-> [op |-> "none"]]

\* createWsClient({ autoConnect, onMessage }): connects at once when autoConnect is
\* asked for and isFeatureEnabled('realtime') is true. Where window.WebSocket is
\* defined the identifier WebSocket is bound (window is the global object); where it
\* is not (a browser without WebSocket, or no window at all) it may or may not be.
WsCreate ==
    /\ ~wsClient.created
    /\ \E hasWebSocket \in BOOLEAN, wsBase \in WsBases, onMessage \in OnMessageArgs,
          autoConnect \in BOOLEAN, flag \in BOOLEAN, constructs \in BOOLEAN :
        \E globalWebSocket \in (IF hasWebSocket THEN {TRUE} ELSE BOOLEAN) :
            LET c == NewClient(hasWebSocket, wsBase, onMessage)
            IN wsClient' = [created |-> TRUE,
                            globalWebSocket |-> globalWebSocket,
                            closing |-> 0,
                            c |-> IF autoConnects(autoConnect, flag)
                                  THEN connect(c, constructs).client ELSE c,
                            last |-> [op |-> "create", autoConnect |-> autoConnect,
                                      realtimeEnabled |-> flag]]
    /\ UNCHANGED <<state, call, threw, http, screen, deck, modal>>

WsConnect ==
    /\ wsClient.created
    /\ \E constructs \in BOOLEAN :
        LET r == connect(wsClient.c, constructs)
        IN /\ r.client.constructed <= MaxSockets
           /\ wsClient' = [wsClient EXCEPT
                                !.c = r.client,
                                !.closing = IF r.client.constructed > wsClient.c.constructed
                                               /\ wsClient.c.ws = "CLOSING"
                                            THEN @ + 1 ELSE @,
                                !.last = [op |-> "connect", ret |-> r.ret]]
    /\ UNCHANGED <<state, call, threw, http, screen, deck, modal>>

\* The socket's open event.
WsOpens ==
    /\ wsClient.c.ws = "CONNECTING"
    /\ wsClient' = [wsClient EXCEPT !.c.ws = "OPEN", !.last = [op |-> "open"]]
    /\ UNCHANGED <<state, call, threw, http, screen, deck, modal>>

\* The socket's close event: the connection failed, was closed by the peer, or the
\* closing handshake finished.
WsCloses ==
    /\ wsClient.c.ws \in {"CONNECTING", "OPEN", "CLOSING"}
    /\ wsClient' = [wsClient EXCEPT !.c.ws = "CLOSED", !.last = [op |-> "closed"]]
    /\ UNCHANGED <<state, call, threw, http, screen, deck, modal>>

\* The close event of a socket the client has replaced: the ws.onclose handler that
\* connect() attached to it runs.
WsPreviousCloses ==
    /\ wsClient.closing > 0
    /\ wsClient' = [wsClient EXCEPT !.closing = @ - 1,
                                    !.last = [op |-> "previousClosed"]]
    /\ UNCHANGED <<state, call, threw, http, screen, deck, modal>>

WsSend ==
    /\ wsClient.created
    /\ \E payload \in SendArgs :
        LET r == send(wsClient.c, payload)
        IN wsClient' = [wsClient EXCEPT
                            !.last = [op |-> "send", payload |-> payload,
                                      ret |-> r.ret, tx |-> r.tx]]
    /\ UNCHANGED <<state, call, threw, http, screen, deck, modal>>

\* subscribe(handler): a non-function is not added.
WsSubscribe ==
    /\ wsClient.created
    /\ \E handler \in Handlers \cup {"not a function"} :
        wsClient' = [wsClient EXCEPT
                        !.c.subscribers = IF handler \in Handlers
                                          THEN SetAdd(@, handler) ELSE @,
                        !.last = [op |-> "subscribe", handler |-> handler]]
    /\ UNCHANGED <<state, call, threw, http, screen, deck, modal>>

\* The function subscribe(handler) returned is called, for the first time or again;
\* `removed` is what subscribers.delete(handler) returns.
WsUnsubscribe ==
    /\ wsClient.created
    /\ \E handler \in Handlers :
        wsClient' = [wsClient EXCEPT
                        !.c.subscribers = SetDelete(@, handler),
                        !.last = [op |-> "unsubscribe", handler |-> handler,
                                  removed |-> SetDelete(wsClient.c.subscribers, handler)
                                              # wsClient.c.subscribers]]
    /\ UNCHANGED <<state, call, threw, http, screen, deck, modal>>

WsClose ==
    /\ wsClient.created
    /\ wsClient' = [wsClient EXCEPT !.c = close(@), !.last = [op |-> "close"]]
    /\ UNCHANGED <<state, call, threw, http, screen, deck, modal>>

\* client.readyState is read.
WsReadyState ==
    /\ wsClient.created
    /\ LET r == readyState(wsClient.c, wsClient.globalWebSocket)
       IN wsClient' = [wsClient EXCEPT
                            !.last = [op |-> "readyState", threw |-> r.threw,
                                      value |-> r.value]]
    /\ UNCHANGED <<state, call, threw, http, screen, deck, modal>>

\* The socket's message event: frames arrive only on an open socket.
WsMessage ==
    /\ wsClient.c.ws = "OPEN"
    /\ \E text \in Frames :
        LET r == onmessage(wsClient.c, text)
        IN wsClient' = [wsClient EXCEPT
                            !.c = r.client,
                            !.last = [op |-> "message", data |-> r.data,
                                      called |-> r.called, escaped |-> r.escaped]]
    /\ UNCHANGED <<state, call, threw, http, screen, deck, modal>>

(***************************************************************************)
(* Chat screen: ChatWindow.                                                *)
(***************************************************************************)
MaxLoads == 2       \* most loadMessages() requests in flight for one conversation

\* a || b || c: the first truthy operand, else the last.
RECURSIVE FirstTruthy(_)
FirstTruthy(xs) ==
    IF Len(xs) = 1 \/ ToBoolean(Head(xs)) THEN Head(xs) ELSE FirstTruthy(Tail(xs))

\* new Date(ts).getTime() of the date strings the model's messages carry; NaN otherwise.
NaN == [t |-> "nan"]
DateGetTime(ts) ==
    IF ts = Str("1970-01-01T00:00:00.002Z") THEN Num(2) ELSE NaN

\* String(x)
String(x) ==
    CASE x.t = "str" -> x
      [] x.t \in {"num", "bool"} -> Str(ToString(x.v))
      [] OTHER -> Str(x.t)

\* normalizeMessage(m): `random` and `now` are what Math.random() and Date.now() return.
normalizeMessage(m, random, now) ==
    IF ~ToBoolean(m) \/ m.t \notin {"obj", "arr"}
    THEN Obj([id |-> Str("m-" \o random), text |-> String(OrElse(m, Str(""))),
              senderId |-> Str("them"), ts |-> Num(now)])
    ELSE LET id == FirstTruthy(<<Prop(m, "id"), Prop(m, "messageId"), Str("m-" \o random)>>)
             text == FirstTruthy(<<Prop(m, "text"), Prop(m, "body"), Str("")>>)
             senderId == FirstTruthy(<<Prop(m, "senderId"), Prop(m, "from"),
                                      IF ToBoolean(Prop(m, "me"))
                                      THEN Str("me") ELSE Str("them")>>)
             isMine == senderId = Str("me") \/ Prop(m, "me") = Bool(TRUE)
             ts == FirstTruthy(<<Prop(m, "ts"), Prop(m, "createdAt"),
                                Prop(m, "timestamp"), Num(now)>>)
         IN Obj([id |-> id, text |-> text, senderId |-> senderId, isMine |-> Bool(isMine),
                 ts |-> IF ts.t = "num" THEN ts ELSE DateGetTime(ts),
                 status |-> Prop(m, "status")])

\* normalizeConversation(c)
normalizeConversation(c) ==
    LET partner == FirstTruthy(<<Prop(c, "partner"), Prop(c, "user"), Prop(c, "peer"),
                                 Obj(EmptyObject)>>)
        lastMessage == FirstTruthy(<<Prop(c, "lastMessage"), Prop(c, "latestMessage"), Null>>)
    IN Obj([id |-> FirstTruthy(<<Prop(c, "id"), Prop(c, "conversationId"),
                                 Prop(c, "threadId")>>),
            title |-> FirstTruthy(<<Prop(c, "title"), Prop(partner, "name"),
                                    Prop(c, "name"), Str("Conversation")>>),
            avatar |-> FirstTruthy(<<Prop(c, "avatar"), Prop(partner, "avatar"),
                                     Prop(partner, "avatarUrl"), Null>>),
            lastMessage |-> lastMessage,
            preview |-> FirstTruthy(<<Prop(c, "preview"), Prop(lastMessage, "text"),
                                      Str("")>>),
            updatedAt |-> FirstTruthy(<<Prop(c, "updatedAt"), Prop(c, "lastMessageAt"),
                                        Prop(lastMessage, "createdAt"), Null>>),
            unreadCount |-> FirstTruthy(<<Prop(c, "unreadCount"), Num(0)>>),
            raw |-> c])

\* list.sort((a, b) => a.ts - b.ts): a stable insertion by ts.
RECURSIVE SortByTs(_)
InsertByTs(sorted, m) ==
    LET before == {i \in 0..Len(sorted) :
                     \A j \in 1..i : Prop(sorted[j], "ts").v <= Prop(m, "ts").v}
        at == CHOOSE i \in before : \A k \in before : k <= i
    IN SubSeq(sorted, 1, at) \o <<m>> \o SubSeq(sorted, at + 1, Len(sorted))
SortByTs(list) ==
    IF list = <<>> THEN <<>>
    ELSE InsertByTs(SortByTs(SubSeq(list, 1, Len(list) - 1)), list[Len(list)])

\* What getEnv() resolves and the platform offers: fixed for the life of the page.
Envs == [wsBase : WsBases, realtime : BOOLEAN, hasWebSocket : BOOLEAN]

\* Boolean(env.wsBase) && env.featureFlags?.includes('realtime')
realtimeEnabled(env) == ToBoolean(env.wsBase) /\ env.realtime

\* isFeatureEnabled('realtime')
isFeatureEnabled(env) == env.realtime

\* What one run of the WebSocket/polling effect holds: the conversation id its closures
\* captured, the client it created (if any) with what connect() returned, and the
\* state of the interval it set ("none", "active", "cleared").
NoEffect ==
    [conv |-> Str(""), hasClient |-> FALSE, client |-> NewClient(FALSE, Str(""), Undefined),
     connected |-> FALSE, timer |-> "none"]

\* The name the effect's subscription callback goes by in its client's subscribers.
Handler(conv) == conv.v

\* cleanup() without clearInterval.
cleanupKeepsInterval(scr) ==
    LET closed == IF scr.wsClientRef # "null"
                  THEN [scr EXCEPT !.effect.client = close(@), !.wsClientRef = "null"]
                  ELSE scr
    IN IF closed.pollTimerRef # "null"
       THEN [closed EXCEPT !.pollTimerRef = "null"]
       ELSE closed

\* cleanup(): close the client the ref holds, clear the interval the ref holds, and
\* null both refs.
cleanup(scr) ==
    LET closed == IF scr.wsClientRef # "null"
                  THEN [scr EXCEPT !.effect.client = close(@), !.wsClientRef = "null"]
                  ELSE scr
    IN IF closed.pollTimerRef # "null"
       THEN [closed EXCEPT !.effect.timer = "cleared", !.pollTimerRef = "null"]
       ELSE closed

\* The client of the realtime branch: createWsClient({ path, autoConnect: true }),
\* client.connect() and client.subscribe(handler).
RealtimeClient(env, conv, constructs) ==
    LET created == NewClient(env.hasWebSocket, env.wsBase, Undefined)
        auto == IF isFeatureEnabled(env) THEN connect(created, constructs).client
                ELSE created
        r == connect(auto, constructs)
    IN [client |-> [r.client EXCEPT !.subscribers = SetAdd(@, Handler(conv))],
        connected |-> r.ret]

\* The effect body with the realtime branch falling through to setInterval.
setupFallsThrough(scr, constructs) ==
    LET cleared == cleanup(scr)
        conv == cleared.conversationId
        rt == RealtimeClient(cleared.env, conv, constructs)
    IN IF realtimeEnabled(cleared.env)
       THEN [cleared EXCEPT !.wsClientRef = "effect", !.pollTimerRef = "effect",
                            !.effect = [conv |-> conv, hasClient |-> TRUE,
                                        client |-> rt.client, connected |-> rt.connected,
                                        timer |-> "active"]]
       ELSE [cleared EXCEPT !.pollTimerRef = "effect",
                            !.effect = [NoEffect EXCEPT !.conv = conv, !.timer = "active"]]

\* The effect body: cleanup(), then the realtime branch or the polling interval.
setup(scr, constructs) ==
    LET cleared == cleanup(scr)
        conv == cleared.conversationId
        rt == RealtimeClient(cleared.env, conv, constructs)
    IN IF realtimeEnabled(cleared.env)
       THEN [cleared EXCEPT !.wsClientRef = "effect",
                            !.effect = [conv |-> conv, hasClient |-> TRUE,
                                        client |-> rt.client, connected |-> rt.connected,
                                        timer |-> "none"]]
       ELSE [cleared EXCEPT !.pollTimerRef = "effect",
                            !.effect = [NoEffect EXCEPT !.conv = conv, !.timer = "active"]]

\* The function the effect returned, run by React before the next run of the effect and
\* at unmount: unsub() in the realtime branch, then cleanup(). What the effect held is
\* kept as `previous`.
teardown(scr) ==
    LET unsubscribed ==
            IF scr.effect.hasClient
            THEN [scr EXCEPT !.effect.client.subscribers =
                                SetDelete(@, Handler(scr.effect.conv))]
            ELSE scr
        cleaned == cleanup(unsubscribed)
    IN [cleaned EXCEPT !.previous = cleaned.effect, !.effect = NoEffect]

\* One call of handleSend past its guard: where it stands ("idle" for none, "awaiting",
\* "succeeded", "failed"), what its closure captured and how long the conversation's
\* list was when it started.
NoSend ==
    [phase |-> "idle", conv |-> Str(""), text |-> "", tempId |-> "", optimistic |-> Null,
     before |-> 0]

\* Before the page has mounted the screen for the first time; `loading` counts the
\* loadMessages() requests in flight and `convLoading` the loadConversation() requests,
\* `initialLoad` says that the initial-load effect of the last render has yet to run,
\* `ran` is the last subscription callback or tick that ran and whether it belonged to
\* a run of the effect already cleaned up, `frame` is the payload of the last frame a
\* socket of the screen received and whether a subscription callback was called with it.
ScreenIdle ==
    [booted |-> FALSE,
     env |-> [wsBase |-> Str(""), realtime |-> FALSE, hasWebSocket |-> FALSE],
     mounted |-> FALSE, conversationId |-> Str(""), wsClientRef |-> "null",
     pollTimerRef |-> "null", effect |-> NoEffect, previous |-> NoEffect,
     initialLoad |-> FALSE,
     loading |-> [k \in {"c1", "c2"} |-> 0],
     convLoading |-> [k \in {"c1", "c2"} |-> 0],
     ran |-> [kind |-> "none", conv |-> Str(""), stale |-> FALSE],
     frame |-> [data |-> Undefined, delivered |-> FALSE],
     composer |-> "", sending |-> FALSE, submitError |-> Null, send |-> NoSend]

\* The screen mounts for the route's conversation id: first render, then the
\* WebSocket / polling effect; the initial-load effect of this render is due.
ScreenMount ==
    /\ ~screen.mounted
    /\ \E id \in ConvIds, constructs \in BOOLEAN,
          env \in (IF screen.booted THEN {screen.env} ELSE Envs) :
        screen' = setup([screen EXCEPT !.booted = TRUE, !.env = env, !.mounted = TRUE,
                                       !.conversationId = id, !.composer = "",
                                       !.sending = FALSE, !.submitError = Null,
                                       !.initialLoad = TRUE],
                        constructs)
    /\ UNCHANGED <<state, call, threw, http, wsClient, deck, modal>>

\* The initial-load effect of a render for a new conversation id: loadConversation()
\* and loadMessages() each start a request.
ScreenInitialLoad ==
    /\ screen.mounted
    /\ screen.initialLoad
    /\ LET k == PropertyKey(screen.conversationId)
       IN /\ screen.loading[k] < MaxLoads
          /\ screen.convLoading[k] < MaxLoads
          /\ screen' = [screen EXCEPT !.initialLoad = FALSE,
                                      !.loading[k] = @ + 1,
                                      !.convLoading[k] = @ + 1]
    /\ UNCHANGED <<state, call, threw, http, wsClient, deck, modal>>

\* The screen unmounts: React runs the function the effect returned.
ScreenUnmount ==
    /\ screen.mounted
    /\ screen' = [teardown(screen) EXCEPT !.mounted = FALSE, !.conversationId = Str(""),
                                          !.initialLoad = FALSE]
    /\ UNCHANGED <<state, call, threw, http, wsClient, deck, modal>>

\* The route's id changes: the screen renders again, React runs the function the last
\* run of the effect returned and then the effect; the initial-load effect is due for
\* the new id.
ScreenChangeConversation ==
    /\ screen.mounted
    /\ \E id \in ConvIds \ {screen.conversationId}, constructs \in BOOLEAN :
        screen' = setup([teardown(screen) EXCEPT !.conversationId = id,
                                                 !.initialLoad = TRUE],
                        constructs)
    /\ UNCHANGED <<state, call, threw, http, wsClient, deck, modal>>

\* The open event of a socket one of the screen's clients holds.
SocketOpens ==
    /\ \E which \in {"effect", "previous"} :
        /\ screen[which].client.ws = "CONNECTING"
        /\ screen' = [screen EXCEPT ![which].client.ws = "OPEN"]
    /\ UNCHANGED <<state, call, threw, http, wsClient, deck, modal>>

\* The close event of such a socket.
SocketCloses ==
    /\ \E which \in {"effect", "previous"} :
        /\ screen[which].client.ws \in {"CONNECTING", "OPEN", "CLOSING"}
        /\ screen' = [screen EXCEPT ![which].client.ws = "CLOSED"]
    /\ UNCHANGED <<state, call, threw, http, wsClient, deck, modal>>

\* What Math.random() and Date.now() return.
Randoms == {"0.5"}
Times == {1000, 2000}

\* One call of a chatActions helper made by the screen: its name, its arguments and
\* the actions it dispatches.
AppendMessageCall(conv, msg) ==
    [api |-> "chat.appendMessage", args |-> <<conv, msg>>,
     dispatches |-> <<Action("chat/appendMessage",
                             Obj([conversationId |-> conv, message |-> msg]))>>]
UpsertConversationCall(c) ==
    [api |-> "chat.upsertConversation", args |-> <<c>>,
     dispatches |-> <<Action("chat/upsertConversation", c)>>]
SetMessagesCall(conv, list) ==
    [api |-> "chat.setMessages", args |-> <<conv, Arr(list)>>,
     dispatches |-> <<Action("chat/setMessages",
                             Obj([conversationId |-> conv, messages |-> Arr(list)]))>>]

RECURSIVE Dispatches(_)
Dispatches(calls) ==
    IF calls = <<>> THEN <<>> ELSE Head(calls).dispatches \o Dispatches(Tail(calls))

\* The helper calls one handler of the screen makes, in order, on the store.
Calling(calls) ==
    IF calls = <<>> THEN UNCHANGED <<state, call, threw>>
    ELSE /\ Called(calls[Len(calls)].api, calls[Len(calls)].args)
         /\ Reducing(Dispatches(calls))

\* The subscription callback without the comparison of payload.conversationId.
SubscriptionCallbackUnfiltered(conv, payload, random, now) ==
    IF ToBoolean(payload) /\ ToBoolean(Prop(payload, "type"))
    THEN (IF Prop(payload, "type") = Str("message.created")
             /\ ToBoolean(Prop(payload, "message"))
          THEN <<AppendMessageCall(conv,
                    normalizeMessage(Prop(payload, "message"), random, now))>>
          ELSE <<>>)
         \o (IF Prop(payload, "type") = Str("conversation.updated")
                /\ ToBoolean(Prop(payload, "conversation"))
             THEN <<UpsertConversationCall(
                        normalizeConversation(Prop(payload, "conversation")))>>
             ELSE <<>>)
    ELSE <<>>

\* The subscription callback of the effect run for `conv`, given a parsed payload.
SubscriptionCallback(conv, payload, random, now) ==
    IF ToBoolean(payload) /\ ToBoolean(Prop(payload, "type"))
       /\ Prop(payload, "conversationId") = conv
    THEN (IF Prop(payload, "type") = Str("message.created")
             /\ ToBoolean(Prop(payload, "message"))
          THEN <<AppendMessageCall(conv,
                    normalizeMessage(Prop(payload, "message"), random, now))>>
          ELSE <<>>)
         \o (IF Prop(payload, "type") = Str("conversation.updated")
                /\ ToBoolean(Prop(payload, "conversation"))
             THEN <<UpsertConversationCall(
                        normalizeConversation(Prop(payload, "conversation")))>>
             ELSE <<>>)
    ELSE <<>>

\* Frames the chat server sends.
ScreenFrames == {p[1] : p \in JsonTexts} \cup {"pong"}

\* A frame arrives on an open socket of one of the screen's clients: the client fans
\* it out to the callbacks still subscribed.
SocketMessage ==
    \E which \in {"effect", "previous"}, text \in ScreenFrames,
       random \in Randoms, now \in Times :
        /\ screen[which].client.ws = "OPEN"
        /\ LET r == onmessage(screen[which].client, text)
               conv == screen[which].conv
           IN /\ screen' = [screen EXCEPT
                    ![which].client = r.client,
                    !.frame = [data |-> r.data, delivered |-> r.called # <<>>],
                    !.ran = IF r.called = <<>> THEN @
                            ELSE [kind |-> "message", conv |-> conv,
                                  stale |-> which = "previous"]]
              /\ Calling(IF r.called = <<>> THEN <<>>
                         ELSE SubscriptionCallback(conv, r.data, random, now))
        /\ UNCHANGED <<http, wsClient, deck, modal>>

\* A tick that starts no request while one for the conversation is in flight.
TimerFiresGuarded ==
    /\ \E which \in {"effect", "previous"} :
        LET conv == screen[which].conv
        IN /\ screen[which].timer = "active"
           /\ ToBoolean(conv) => screen.loading[PropertyKey(conv)] = 0
           /\ screen' = [screen EXCEPT
                    !.loading = IF ToBoolean(conv)
                                THEN [@ EXCEPT ![PropertyKey(conv)] = @ + 1] ELSE @,
                    !.ran = [kind |-> "tick", conv |-> conv,
                             stale |-> which = "previous"]]
    /\ UNCHANGED <<state, call, threw, http, wsClient, deck, modal>>

\* An interval set by the screen ticks: loadMessages() of the render that set it starts
\* a request, whether or not an earlier one is still in flight.
TimerFires ==
    /\ \E which \in {"effect", "previous"} :
        LET conv == screen[which].conv
        IN /\ screen[which].timer = "active"
           /\ ToBoolean(conv) => screen.loading[PropertyKey(conv)] < MaxLoads
           /\ screen' = [screen EXCEPT
                    !.loading = IF ToBoolean(conv)
                                THEN [@ EXCEPT ![PropertyKey(conv)] = @ + 1] ELSE @,
                    !.ran = [kind |-> "tick", conv |-> conv,
                             stale |-> which = "previous"]]
    /\ UNCHANGED <<state, call, threw, http, wsClient, deck, modal>>

\* What messagesApi.list resolves with: { data, status, ok } for these bodies.
ListBodies == {Arr(<<RawM2, RawM1>>), Obj([items |-> Arr(<<RawM1>>)]), Null}
ListResponse(data) == Obj([data |-> data, status |-> Num(200), ok |-> Bool(TRUE)])

\* res?.data ?? res ?? [], then the array itself or its items, else [].
ListOf(res) ==
    LET raw == Coalesce(Coalesce(Prop(res, "data"), res), Arr(<<>>))
    IN IF IsArray(raw) THEN raw.v
       ELSE IF IsArray(Prop(raw, "items")) THEN Prop(raw, "items").v
       ELSE <<>>

\* list.map(normalizeMessage).sort(by ts)
NormalizedList(list, random, now) ==
    SortByTs([i \in 1..Len(list) |-> normalizeMessage(list[i], random, now)])

\* A loadMessages() request settles: the list replaces the conversation's messages, a
\* rejection only sets the screen's error text.
LoadMessagesSettles ==
    \E k \in DOMAIN screen.loading, random \in Randoms, now \in Times :
        /\ screen.loading[k] > 0
        /\ screen' = [screen EXCEPT !.loading[k] = @ - 1]
        /\ \E outcome \in {ListResponse(b) : b \in ListBodies} \cup {Str("rejected")} :
            Calling(IF outcome = Str("rejected") THEN <<>>
                    ELSE <<SetMessagesCall(Str(k),
                                NormalizedList(ListOf(outcome), random, now))>>)
        /\ UNCHANGED <<http, wsClient, deck, modal>>

\* What conversationsApi.get(id) resolves with: { data, status, ok } for a body that is
\* the conversation's record, or for no body.
ConversationBodies(k) == {Obj([id |-> Str(k), title |-> Str("A")]), Null}

\* A loadConversation() request settles: the normalized record of res?.data ?? res ?? {}
\* is upserted; a rejection is ignored.
LoadConversationSettles ==
    \E k \in DOMAIN screen.convLoading :
        /\ screen.convLoading[k] > 0
        /\ screen' = [screen EXCEPT !.convLoading[k] = @ - 1]
        /\ \E outcome \in {ListResponse(b) : b \in ConversationBodies(k)}
                            \cup {Str("rejected")} :
            Calling(IF outcome = Str("rejected") THEN <<>>
                    ELSE <<UpsertConversationCall(normalizeConversation(
                            Coalesce(Coalesce(Prop(outcome, "data"), outcome),
                                     Obj(EmptyObject))))>>)
        /\ UNCHANGED <<http, wsClient, deck, modal>>

\* composer.trim()
RECURSIVE TrimStart(_)
TrimStart(text) ==
    IF Len(text) > 0 /\ SubSeq(text, 1, 1) = " "
    THEN TrimStart(SubSeq(text, 2, Len(text))) ELSE text
RECURSIVE TrimEnd(_)
TrimEnd(text) ==
    IF Len(text) > 0 /\ SubSeq(text, Len(text), Len(text)) = " "
    THEN TrimEnd(SubSeq(text, 1, Len(text) - 1)) ELSE text
Trim(text) == TrimEnd(TrimStart(text))

\* What the user types into the composer.
ComposerTexts == {"hi", " yo ", "  "}

\* composer.trim().length > 0 && !sending
canSend(scr) == Len(Trim(scr.composer)) > 0 /\ ~scr.sending

\* The messages the store holds for a conversation id.
MessagesOf(st, conv) == Lookup(st.chat.messagesByConvId, PropertyKey(conv), <<>>)

\* The optimistic message of handleSend.
Optimistic(text, now) ==
    Obj([id |-> Str("tmp-" \o ToString(now)), text |-> Str(text), senderId |-> Str("me"),
         ts |-> Num(now), status |-> Str("sending")])

\* reconcileOptimistic that appends nothing when markFailed is set.
reconcileOptimisticDropsFailed(conversationId, tempId, finalMessage, markFailed) ==
    IF markFailed THEN <<>>
    ELSE <<AppendMessageCall(conversationId,
                Obj(Put(finalMessage.v, "status", Undefined)))>>

\* reconcileOptimistic(conversationId, tempId, finalMessage, chatActions, markFailed):
\* the helper calls it makes.
reconcileOptimistic(conversationId, tempId, finalMessage, markFailed) ==
    IF markFailed THEN <<AppendMessageCall(conversationId, finalMessage)>>
    ELSE <<AppendMessageCall(conversationId,
                Obj(Put(finalMessage.v, "status", Undefined)))>>

\* onChange of the composer input.
ScreenType ==
    /\ screen.mounted
    /\ \E text \in ComposerTexts : screen' = [screen EXCEPT !.composer = text]
    /\ UNCHANGED <<state, call, threw, http, wsClient, deck, modal>>

\* handleSend up to its await: the composer is emptied, the optimistic message is
\* appended and messagesApi.send is called.
ScreenSend ==
    /\ screen.mounted
    /\ canSend(screen)
    /\ screen.send.phase # "awaiting"
    /\ \E now \in Times :
        LET text == Trim(screen.composer)
            optimistic == Optimistic(text, now)
        IN /\ screen' = [screen EXCEPT
                    !.composer = "", !.sending = TRUE, !.submitError = Null,
                    !.send = [phase |-> "awaiting", conv |-> screen.conversationId,
                              text |-> text, tempId |-> "tmp-" \o ToString(now),
                              optimistic |-> optimistic,
                              before |-> Len(MessagesOf(state, screen.conversationId))]]
           /\ Calling(<<AppendMessageCall(screen.conversationId, optimistic)>>)
    /\ UNCHANGED <<http, wsClient, deck, modal>>

\* What messagesApi.send resolves with: { data, status, ok } for a body that is the
\* stored message, or for no body.
SendBodies ==
    {Obj([id |-> Str("m9"), text |-> Str("hi"), senderId |-> Str("me"), ts |-> Num(3000),
          status |-> Str("delivered")]),
     Null}
SendResponse(data) == Obj([data |-> data, status |-> Num(201), ok |-> Bool(TRUE)])

\* messagesApi.send resolves: the rest of the try block, then finally.
SendResolves ==
    /\ screen.send.phase = "awaiting"
    /\ \E body \in SendBodies, random \in Randoms, now \in Times :
        LET res == SendResponse(body)
            c == screen.send
            fallback == Obj([text |-> Str(c.text), id |-> Str(c.tempId),
                             createdAt |-> Num(now)])
            sent == normalizeMessage(
                        Coalesce(Coalesce(Prop(res, "data"), res), fallback), random, now)
        IN /\ Calling(reconcileOptimistic(c.conv, c.tempId, sent, FALSE))
           /\ screen' = [screen EXCEPT
                    !.send.phase = "succeeded",
                    !.sending = IF screen.mounted THEN FALSE ELSE @]
    /\ UNCHANGED <<http, wsClient, deck, modal>>

\* messagesApi.send rejects: the catch block, then finally.
SendRejects ==
    /\ screen.send.phase = "awaiting"
    /\ LET c == screen.send
           failed == Obj(Put(c.optimistic.v, "status", Str("failed")))
       IN /\ Calling(reconcileOptimistic(c.conv, c.tempId, failed, TRUE))
          /\ screen' = [screen EXCEPT
                    !.send.phase = "failed",
                    !.submitError = IF screen.mounted
                                    THEN Str("Failed to send. Tap to retry.") ELSE @,
                    !.composer = IF screen.mounted THEN c.text ELSE @,
                    !.sending = IF screen.mounted THEN FALSE ELSE @]
    /\ UNCHANGED <<http, wsClient, deck, modal>>

(***************************************************************************)
(* Swipe deck: SwipeDeck.                                                  *)
(***************************************************************************)
MaxDeckLoads == 2   \* most loadRecommendations() calls the deck makes

\* Profiles as the server sends them.
RawP1 == Obj([id |-> Str("p1"), name |-> Str("Ann"), age |-> Num(30)])
RawP2 == Obj([userId |-> Str("p2"), about |-> Str("hi"), tags |-> Arr(<<Str("jazz")>>)])

\* normalizeProfile(p, i)
normalizeProfile(p, i) ==
    IF ~ToBoolean(p) \/ p.t \notin {"obj", "arr"} THEN Null
    ELSE Obj([id |-> Coalesce(Coalesce(Prop(p, "id"), Prop(p, "userId")),
                              Str("rec-" \o ToString(i))),
              name |-> FirstTruthy(<<Prop(p, "name"), Str("Unknown")>>),
              age |-> FirstTruthy(<<Prop(p, "age"), Prop(Prop(p, "meta"), "age"), Null>>),
              bio |-> FirstTruthy(<<Prop(p, "bio"), Prop(p, "about"), Str("")>>),
              interests |-> IF IsArray(Prop(p, "interests")) THEN Prop(p, "interests")
                            ELSE IF IsArray(Prop(p, "tags")) THEN Prop(p, "tags")
                            ELSE Arr(<<>>),
              photos |-> IF IsArray(Prop(p, "photos")) /\ Len(Prop(p, "photos").v) > 0
                         THEN Prop(p, "photos")
                         ELSE IF ToBoolean(Prop(p, "photo")) THEN Arr(<<Prop(p, "photo")>>)
                         ELSE Arr(<<>>)])

\* The three cards of the fallback mock data.
MockProfiles ==
    <<Obj([id |-> Str("m-1"), name |-> Str("Jordan"), age |-> Num(28),
           bio |-> Str("Product designer. Coffee enthusiast and weekend hiker."),
           interests |-> Arr(<<Str("Design"), Str("Hiking"), Str("Coffee"), Str("Art")>>),
           photos |-> Arr(<<>>)]),
      Obj([id |-> Str("m-2"), name |-> Str("Taylor"), age |-> Num(31),
           bio |-> Str("Engineer who loves jazz and cooking."),
           interests |-> Arr(<<Str("Jazz"), Str("Cooking"), Str("Tech")>>),
           photos |-> Arr(<<>>)]),
      Obj([id |-> Str("m-3"), name |-> Str("Riley"), age |-> Num(26),
           bio |-> Str("Avid reader and traveler."),
           interests |-> Arr(<<Str("Books"), Str("Travel"), Str("Photography")>>),
           photos |-> Arr(<<>>)])>>

\* list.filter(Boolean) of normalized profiles.
RECURSIVE FilterBoolean(_)
FilterBoolean(list) ==
    IF list = <<>> THEN <<>>
    ELSE (IF ToBoolean(Head(list)) THEN <<Head(list)>> ELSE <<>>)
         \o FilterBoolean(Tail(list))

\* The queue loadRecommendations() stores for the value `list` it has obtained:
\* the normalized profiles of an array, the mock data if there are none.
Normalized(list) ==
    LET normalized ==
            IF IsArray(list)
            THEN FilterBoolean([i \in 1..Len(list.v) |-> normalizeProfile(list.v[i], i - 1)])
            ELSE <<>>
    IN IF Len(normalized) = 0 THEN MockProfiles ELSE normalized

\* The deck before it mounts: `issued` counts the loadRecommendations() calls made,
\* `pending` holds the numbers of those still awaiting recommendationsApi.list(),
\* `fallback` of those awaiting the fallback fetch, `applied` lists, in the order of
\* their setQueue calls, the loads that have stored a queue, each with that queue.
NoDeck ==
    [mounted |-> FALSE, issued |-> 0, pending |-> {}, fallback |-> {}, applied |-> <<>>]

\* loadRecommendations() up to its first await.
loadRecommendations(dk) ==
    [dk EXCEPT !.issued = @ + 1, !.pending = @ \cup {dk.issued + 1}]

\* The deck mounts: the effect loads recommendations if the queue is empty.
DeckMount ==
    /\ ~deck.mounted
    /\ IF Len(state.swipe.queue) = 0
       THEN /\ deck' = [loadRecommendations(deck) EXCEPT !.mounted = TRUE]
            /\ Called("swipe.setLoading", <<Bool(TRUE)>>)
            /\ Reducing(<<Action("swipe/setLoading", Bool(TRUE))>>)
       ELSE /\ deck' = [deck EXCEPT !.mounted = TRUE]
            /\ UNCHANGED <<state, call, threw>>
    /\ UNCHANGED <<http, wsClient, screen, modal>>

\* resetDeck(): Refresh or Reload is clicked.
ResetDeck ==
    /\ deck.mounted
    /\ deck.issued < MaxDeckLoads
    /\ deck' = loadRecommendations(deck)
    /\ Called("swipe.setLoading", <<Bool(TRUE)>>)
    /\ Reducing(<<Action("swipe/setQueue", Arr(<<>>)), Action("swipe/reset", Undefined),
                  Action("swipe/setLoading", Bool(TRUE))>>)
    /\ UNCHANGED <<http, wsClient, screen, modal>>

\* The rest of loadRecommendations() of load n once `list` is known: setQueue of the
\* normalized list, then finally.
DeckStores(n, list) ==
    /\ deck' = [deck EXCEPT !.pending = @ \ {n}, !.fallback = @ \ {n},
                            !.applied = Append(@, [load |-> n, queue |-> Normalized(list)])]
    /\ Called("swipe.setLoading", <<Bool(FALSE)>>)
    /\ Reducing(<<Action("swipe/setQueue", Arr(Normalized(list))),
                  Action("swipe/setLoading", Bool(FALSE))>>)
    /\ UNCHANGED <<http, wsClient, screen, modal>>

\* What recommendationsApi.list() resolves with: { data, status, ok } for these bodies.
RecommendationBodies == {Arr(<<RawP1>>), Arr(<<RawP2, Null>>), Arr(<<>>), Null}

\* recommendationsApi.list() of a load resolves: list = res?.data || res || [].
DeckLoadResolves ==
    \E n \in deck.pending \ deck.fallback, body \in RecommendationBodies :
        LET res == ListResponse(body)
        IN DeckStores(n, FirstTruthy(<<Prop(res, "data"), res, Arr(<<>>)>>))

\* recommendationsApi.list() of a load rejects: the fallback fetch starts.
DeckLoadRejects ==
    /\ \E n \in deck.pending \ deck.fallback :
        deck' = [deck EXCEPT !.fallback = @ \cup {n}]
    /\ UNCHANGED <<state, call, threw, http, wsClient, screen, modal>>

\* The fallback fetch of a load settles: list = await res2.json(), or [] when the
\* fetch or the parse fails.
DeckFallbackSettles ==
    \E n \in deck.fallback, list \in {Arr(<<RawP1, RawP2>>), Arr(<<>>)} :
        DeckStores(n, list)

\* The card on top: queue[index] || null.
Current(st) ==
    IF st.swipe.index + 1 \in 1..Len(st.swipe.queue)
    THEN st.swipe.queue[st.swipe.index + 1] ELSE Null

\* handleLike(current) up to its await.
DeckLike ==
    /\ deck.mounted
    /\ ToBoolean(Current(state))
    /\ Called("swipe.like", <<Prop(Current(state), "id")>>)
    /\ Reducing(<<Action("swipe/like", Prop(Current(state), "id")),
                  Action("swipe/next", Undefined)>>)
    /\ UNCHANGED <<http, wsClient, screen, deck, modal>>

\* handlePass(current) up to its await.
DeckPass ==
    /\ deck.mounted
    /\ ToBoolean(Current(state))
    /\ Called("swipe.pass", <<Prop(Current(state), "id")>>)
    /\ Reducing(<<Action("swipe/pass", Prop(Current(state), "id")),
                  Action("swipe/next", Undefined)>>)
    /\ UNCHANGED <<http, wsClient, screen, deck, modal>>

(***************************************************************************)
(* Onboarding modal: OnboardingModal.                                      *)
(***************************************************************************)

\* text.split(','): the pieces between the commas.
RECURSIVE Split(_)
Split(text) ==
    LET commas == {i \in 1..Len(text) : SubSeq(text, i, i) = ","}
    IN IF commas = {} THEN <<text>>
       ELSE LET first == CHOOSE i \in commas : \A j \in commas : i <= j
            IN <<SubSeq(text, 1, first - 1)>> \o Split(SubSeq(text, first + 1, Len(text)))

\* list.filter(Boolean) of strings: the non-empty ones.
RECURSIVE NonEmpty(_)
NonEmpty(list) ==
    IF list = <<>> THEN <<>>
    ELSE (IF Head(list) # "" THEN <<Head(list)>> ELSE <<>>) \o NonEmpty(Tail(list))

\* interests.split(',').map((s) => s.trim()).filter(Boolean).slice(0, 10)
interestsArray(interests) ==
    LET pieces == Split(interests)
        kept == NonEmpty([i \in 1..Len(pieces) |-> Trim(pieces[i])])
    IN SubSeq(kept, 1, Min(10, Len(kept)))

\* Number(age) of the texts the model types into the age field.
Number(age) ==
    CASE age = "" -> Num(0)
      [] age = "17" -> Num(17)
      [] age = "30" -> Num(30)
      [] age = "130" -> Num(130)
      [] OTHER -> NaN

\* validate(): the errors object, as the set of its fields with their messages.
validate(form) ==
    (IF form.name = "" \/ Len(Trim(form.name)) < 2
     THEN {<<"name", "Please enter your name (min 2 characters).">>} ELSE {})
    \cup (IF form.age = "" \/ Number(form.age) = NaN
          THEN {<<"age", "Please enter your age.">>}
          ELSE IF Number(form.age).v < 18
          THEN {<<"age", "You must be at least 18 years old.">>}
          ELSE IF Number(form.age).v > 120
          THEN {<<"age", "Please enter a realistic age.">>}
          ELSE {})
    \cup (IF Len(interestsArray(form.interests)) = 0
          THEN {<<"interests", "Add at least one interest (comma-separated).">>}
          ELSE IF Len(interestsArray(form.interests)) > 10
          THEN {<<"interests", "Please limit to 10 interests.">>}
          ELSE {})

\* { ...(userState.me || {}), name: name.trim(), age: Number(age), interests, onboarded }
Updated(me, form) ==
    LET list == interestsArray(form.interests)
    IN Merge(OrElse(me, Obj(EmptyObject)),
             Obj([name |-> Str(Trim(form.name)), age |-> Number(form.age),
                  interests |-> Arr([i \in 1..Len(list) |-> Str(list[i])]),
                  onboarded |-> Bool(TRUE)]))

\* list.join(', ') of an array of strings.
RECURSIVE Join(_)
Join(list) ==
    IF list = <<>> THEN ""
    ELSE IF Len(list) = 1 THEN Head(list).v
    ELSE Head(list).v \o ", " \o Join(Tail(list))

\* The form the pre-fill effect sets when the modal opens.
Prefill(me) ==
    [name |-> OrElse(Prop(me, "name"), Str("")).v,
     age |-> IF Nullish(Prop(me, "age")) THEN "" ELSE String(Prop(me, "age")).v,
     interests |-> IF IsArray(Prop(me, "interests")) THEN Join(Prop(me, "interests").v)
                   ELSE ""]

\* What the user leaves in the form.
Forms ==
    {[name |-> "Al", age |-> "30", interests |-> "a, b"],
     [name |-> " A ", age |-> "30", interests |-> "a"],
     [name |-> "Al", age |-> "17", interests |-> "a"],
     [name |-> "Al", age |-> "abc", interests |-> " , "],
     [name |-> "Bo", age |-> "130", interests |-> "x"],
     [name |-> "Bo", age |-> "30", interests |-> "x"]}

\* The modal closed and untouched. `update` is the state of the usersApi.update()
\* request of the last save ("none", "pending", "resolved", "rejected"), `closedBy`
\* says which call of onClose closed the modal last ("save", "cancel").
NoModal ==
    [open |-> FALSE, form |-> [name |-> "", age |-> "", interests |-> ""], errors |-> {},
     update |-> "none", closedBy |-> "none"]

\* The parent opens the modal: the pre-fill effect runs.
ModalOpen ==
    /\ ~modal.open
    /\ modal' = [modal EXCEPT !.open = TRUE, !.form = Prefill(state.user.me),
                              !.errors = {}, !.closedBy = "none"]
    /\ UNCHANGED <<state, call, threw, http, wsClient, screen, deck>>

\* onChange of the form's inputs.
ModalType ==
    /\ modal.open
    /\ \E form \in Forms : modal' = [modal EXCEPT !.form = form]
    /\ UNCHANGED <<state, call, threw, http, wsClient, screen, deck>>

\* Cancel: onClose().
ModalCancel ==
    /\ modal.open
    /\ modal' = [modal EXCEPT !.open = FALSE, !.closedBy = "cancel"]
    /\ UNCHANGED <<state, call, threw, http, wsClient, screen, deck>>

\* handleSave(e). With errors it stops after validate(). Otherwise it updates the user
\* slice and evaluates `await usersApi.create ? usersApi.create(updated) :
\* usersApi.update(updated)`: the await applies to usersApi.create, which is undefined,
\* so usersApi.update(updated) is called and its promise is dropped; handleSave goes
\* on to onClose() and the finally block in the same turn of the event loop.
handleSave ==
    /\ modal.open
    /\ modal.update # "pending"
    /\ IF validate(modal.form) # {}
       THEN /\ modal' = [modal EXCEPT !.errors = validate(modal.form)]
            /\ UNCHANGED <<state, call, threw>>
       ELSE /\ modal' = [modal EXCEPT !.errors = {}, !.update = "pending",
                                      !.open = FALSE, !.closedBy = "save"]
            /\ Called("user.setOnboardingDone", <<Bool(TRUE)>>)
            /\ Reducing(<<Action("user/setUser", Updated(state.user.me, modal.form)),
                          Action("user/setOnboardingDone", Bool(TRUE))>>)
    /\ UNCHANGED <<http, wsClient, screen, deck>>

\* PUT /api/users/me succeeds: nothing awaits the promise.
UpdateResolves ==
    /\ modal.update = "pending"
    /\ modal' = [modal EXCEPT !.update = "resolved"]
    /\ UNCHANGED <<state, call, threw, http, wsClient, screen, deck>>

\* PUT /api/users/me fails: the rejection of the dropped promise is unhandled.
UpdateRejects ==
    /\ modal.update = "pending"
    /\ modal' = [modal EXCEPT !.update = "rejected"]
    /\ UNCHANGED <<state, call, threw, http, wsClient, screen, deck>>

(***************************************************************************)
(* Specifications.                                                         *)
(***************************************************************************)

Init ==
    /\ state = initialState
    /\ call = [api |-> "init", args |-> <<>>]
    /\ threw = FALSE
    /\ http = HttpIdle
    /\ wsClient = NoClient
    /\ screen = ScreenIdle
    /\ deck = NoDeck
    /\ modal = NoModal

\* The swipe deck's store: every helper of swipeActions, in any order.
NextSwipe ==
    \/ SwipeSetQueue
    \/ SwipeAppendQueue
    \/ SwipeNext
    \/ SwipeLike
    \/ SwipePass
    \/ SwipeReset
    \/ SwipeSetLoading
    \/ SwipeSetError

SpecSwipe == Init /\ [][NextSwipe]_vars

\* The conversations list of the chat slice.
NextConv ==
    \/ ChatSetConversations
    \/ ChatUpsertConversation
    \/ ChatSetLoading
    \/ ChatSetError
    \/ ChatReset

SpecConv == Init /\ [][NextConv]_vars

\* The message lists of the chat slice.
NextMsgs ==
    \/ ChatSetMessages
    \/ ChatPrependMessages
    \/ ChatAppendMessage
    \/ ChatReset

SpecMsgs == Init /\ [][NextMsgs]_vars

\* The active conversation and the unread counters of the chat slice.
NextUnread ==
    \/ ChatSetActiveConversation
    \/ ChatIncrementUnread
    \/ ChatClearUnread
    \/ ChatReset

SpecUnread == Init /\ [][NextUnread]_vars

\* The root store with helpers of all three slices.
NextStore ==
    \/ UserSetUser
    \/ UserClearUser
    \/ UserSetLoading
    \/ UserSetError
    \/ UserSetOnboardingDone
    \/ SwipeSetQueue
    \/ SwipeNext
    \/ ChatSetActiveConversation

SpecStore == Init /\ [][NextStore]_vars

\* Both resettable slices of one store: helpers that accumulate, and the two resets.
NextReset ==
    \/ SwipeSetQueue
    \/ SwipeNext
    \/ SwipeReset
    \/ ChatAppendMessage
    \/ ChatReset

SpecReset == Init /\ [][NextReset]_vars

\* The loading flag and the error of each of the three slices of one store.
NextFlags ==
    \/ UserSetLoading
    \/ UserSetError
    \/ SwipeSetLoading
    \/ SwipeSetError
    \/ ChatSetLoading
    \/ ChatSetError

SpecFlags == Init /\ [][NextFlags]_vars

\* Calls of request(), one at a time, against every server and network behaviour.
NextHttp ==
    \/ HttpRequest
    \/ HttpTimerFires
    \/ HttpFetchAborted
    \/ HttpFetchFails
    \/ HttpFetchResolves
    \/ HttpBodyParsed

SpecHttp == Init /\ [][NextHttp]_vars

\* The same calls where the client's own steps are not postponed for ever: an armed
\* timer fires unless it is cleared first, and the abort it causes rejects the pending
\* fetch. What the network and the server do (fail, answer, deliver the body) is
\* under no such obligation.
SpecHttpLive ==
    /\ Init
    /\ [][NextHttp]_vars
    /\ WF_vars(HttpTimerFires)
    /\ WF_vars(HttpFetchAborted)

\* One WebSocket client: its four functions, its readyState and the events of its socket.
NextWs ==
    \/ WsCreate
    \/ WsConnect
    \/ WsOpens
    \/ WsCloses
    \/ WsPreviousCloses
    \/ WsSend
    \/ WsSubscribe
    \/ WsUnsubscribe
    \/ WsClose
    \/ WsReadyState
    \/ WsMessage

SpecWs == Init /\ [][NextWs]_vars

\* The chat screen's realtime / polling effect over mounts, unmounts and changes of
\* conversation, with the events of its sockets, intervals and requests.
NextScreen ==
    \/ ScreenMount
    \/ ScreenUnmount
    \/ ScreenChangeConversation
    \/ SocketOpens
    \/ SocketCloses
    \/ SocketMessage
    \/ TimerFires
    \/ LoadMessagesSettles

SpecScreen == Init /\ [][NextScreen]_vars

\* The sources of a conversation's messages while the screen shows it: the initial
\* load, the polling ticks and the frames of the socket, with the requests settling
\* in any order.
NextChrono ==
    \/ ScreenMount
    \/ ScreenInitialLoad
    \/ SocketOpens
    \/ SocketMessage
    \/ TimerFires
    \/ LoadMessagesSettles
    \/ LoadConversationSettles

SpecChrono == Init /\ [][NextChrono]_vars

\* The events of the screen's socket over mounts and changes of conversation, with no
\* request settling.
NextRealtime ==
    \/ ScreenMount
    \/ ScreenChangeConversation
    \/ SocketOpens
    \/ SocketMessage

SpecRealtime == Init /\ [][NextRealtime]_vars

\* Sending while the conversation's messages are also loaded: the initial load and the
\* polling ticks, with the requests settling in any order.
NextRefresh ==
    \/ ScreenMount
    \/ ScreenInitialLoad
    \/ ScreenType
    \/ ScreenSend
    \/ TimerFires
    \/ LoadMessagesSettles
    \/ SendResolves
    \/ SendRejects

SpecRefresh == Init /\ [][NextRefresh]_vars

\* The swipe deck: its mount, Refresh / Reload, the loads settling in any order, and
\* the swipes on the card on top.
NextDeck ==
    \/ DeckMount
    \/ ResetDeck
    \/ DeckLoadResolves
    \/ DeckLoadRejects
    \/ DeckFallbackSettles
    \/ DeckLike
    \/ DeckPass

SpecDeck == Init /\ [][NextDeck]_vars

\* The onboarding modal: opening, typing, Cancel, Save and the backend call settling.
NextOnboarding ==
    \/ ModalOpen
    \/ ModalType
    \/ ModalCancel
    \/ handleSave
    \/ UpdateResolves
    \/ UpdateRejects

SpecOnboarding == Init /\ [][NextOnboarding]_vars

\* Sending from the chat screen, with no other source of messages: typing, handleSend
\* and the two ways its request settles.
NextSend ==
    \/ ScreenMount
    \/ ScreenType
    \/ ScreenSend
    \/ SendResolves
    \/ SendRejects

SpecSend == Init /\ [][NextSend]_vars

(***************************************************************************)
(* Properties.                                                             *)
(***************************************************************************)

\* C1: after any sequence of swipe helper calls, 0 <= index <= max(len(queue) - 1, 0);
\* in particular the index is 0 whenever the queue is empty.
C1_IndexInBounds ==
    /\ 0 <= state.swipe.index
    /\ state.swipe.index <= Max(Len(state.swipe.queue) - 1, 0)

\* C1 witness: like() has been called on the last card of a full queue and the
\* index stayed on it.
C1_Witness ==
    /\ call.api = "swipe.like"
    /\ Len(state.swipe.queue) = MaxQueue
    /\ state.swipe.index = MaxQueue - 1

\* C1 witness of the empty-queue case: pass() on an empty queue.
C1_WitnessEmpty ==
    /\ call.api = "swipe.pass"
    /\ state.swipe.queue = <<>>
    /\ state.swipe.index = 0

\* C2: after setActiveConversation(id) with a conversation id, the active conversation
\* is id and its unread counter is exactly 0, whatever the counter was before.
C2_SetActiveClearsUnread ==
    (call.api = "chat.setActiveConversation" /\ ToBoolean(call.args[1])) =>
        /\ state.chat.activeConversationId = call.args[1]
        /\ PropertyKey(call.args[1]) \in DOMAIN state.chat.unreadByConvId
        /\ state.chat.unreadByConvId[PropertyKey(call.args[1])] = 0

\* C2 witness: c1 has been opened while the other conversation keeps unread messages.
C2_Witness ==
    /\ call = [api |-> "chat.setActiveConversation", args |-> <<Str("c1")>>]
    /\ state.chat.unreadByConvId = [k \in {"c1", "c2"} |-> IF k = "c1" THEN 0 ELSE 2]

\* C3: when the timeout elapses before the transport completes, request() rejects
\* with the sentinel status 499 and data null.
C3_TimeoutRejectsWithSentinel ==
    (http.pc = "rejected" /\ http.cause = "timeout") =>
        /\ Prop(http.result, "status") = Num(AbortedStatus)
        /\ Prop(http.result, "data") = Null

\* C4: every rejection of request() carries a numeric status, and a network or
\* abort failure carries the sentinel status.
C4_UniformErrorShape ==
    http.pc = "rejected" =>
        /\ Prop(http.result, "status").t = "num"
        /\ http.cause \in {"network", "timeout"} =>
                Prop(http.result, "status") = Num(AbortedStatus)

AllTypes == UserTypes \cup SwipeTypes \cup ChatTypes

\* Payloads that carry none of the fields a reducer reads.
ShapelessPayloads == {Undefined, Null, Obj(EmptyObject), Num(0)}

\* C5: every reducer returns a state, without throwing, for every declared action type
\* and every payload, an undefined payload included.
C5_ReducersTotal ==
    \A type \in AllTypes, payload \in ShapelessPayloads :
        ~rootReducer(state, Action(type, payload)).threw

\* Payloads of the five keyed chat actions that lack what the reducer requires: no
\* payload at all, a payload without its fields, or one whose conversationId is missing.
KeylessPayloads ==
    ShapelessPayloads \cup
    {Obj([conversationId |-> id, messages |-> Arr(<<M1>>), message |-> M2, by |-> Num(2)]) :
        id \in MissingIds}

\* Payloads with a conversation id but no message (APPEND_MESSAGE) or no array of
\* messages (PREPEND_MESSAGES).
BodilessPayloads ==
    {Obj([conversationId |-> id]) : id \in ConvIds} \cup
    {Obj([conversationId |-> id, messages |-> Str("m1"), message |-> Null]) : id \in ConvIds}

KeyedTypes ==
    {"chat/setMessages", "chat/prependMessages", "chat/appendMessage",
     "chat/incrementUnread", "chat/clearUnread"}

\* C6: SET_MESSAGES, PREPEND_MESSAGES, APPEND_MESSAGE, INCREMENT_UNREAD and CLEAR_UNREAD
\* with a missing conversationId, APPEND_MESSAGE with a missing message and
\* PREPEND_MESSAGES with a non-array, return the chat state unchanged in every field.
C6_MissingFieldIsNoOp ==
    /\ \A type \in KeyedTypes, payload \in KeylessPayloads :
            chatReducer(state.chat, Action(type, payload)) = Ret(state.chat)
    /\ \A type \in {"chat/prependMessages", "chat/appendMessage"},
          payload \in BodilessPayloads :
            chatReducer(state.chat, Action(type, payload)) = Ret(state.chat)

\* C6 witness: appendMessage(undefined, m) has been called on a store that holds
\* messages.
C6_Witness ==
    /\ call = [api |-> "chat.appendMessage", args |-> <<Undefined, M1>>]
    /\ state.chat.messagesByConvId = [k \in {"c1"} |-> <<M1, M2>>]

\* Actions of every declared type and of an undeclared one, with payloads of every
\* shape the reducers read.
SamplePayloads ==
    {Undefined, Bool(TRUE), Str("c2"), Arr(<<P1>>), CB,
     Obj([conversationId |-> Str("c2"), messages |-> Arr(<<M1>>), message |-> M1])}

SampleActions ==
    {Action(type, payload) :
        type \in AllTypes \cup {"other/unknown"}, payload \in SamplePayloads}

\* C7: each slice's next substate is its own reducer applied to its own substate, and
\* an action of another slice, or of no slice, leaves the slice's subtree unchanged.
C7_SliceIsolation ==
    \A a \in SampleActions :
        LET r == rootReducer(state, a)
        IN ~r.threw =>
            /\ Ret(r.state.user) = userReducer(state.user, a)
            /\ Ret(r.state.swipe) = swipeReducer(state.swipe, a)
            /\ Ret(r.state.chat) = chatReducer(state.chat, a)
            /\ a.type \notin UserTypes => r.state.user = state.user
            /\ a.type \notin SwipeTypes => r.state.swipe = state.swipe
            /\ a.type \notin ChatTypes => r.state.chat = state.chat

\* C7 witness: a swipe helper has run on a store whose three subtrees all differ
\* from their defaults.
C7_Witness ==
    /\ call.api = "swipe.next"
    /\ state.user.me = U1
    /\ state.swipe.index = 1
    /\ state.chat.activeConversationId = Str("c1")

\* C8: no two entries of conversations share an id.
C8_ConversationsUniqueById ==
    \A i, j \in 1..Len(state.chat.conversations) :
        (/\ i # j
         /\ ~Nullish(state.chat.conversations[i])
         /\ ~Nullish(state.chat.conversations[j]))
        => ~SameId(state.chat.conversations[i], state.chat.conversations[j])

ConversationRecords == {CA, CA2, CB, Obj([title |-> Str("A")])}

\* C9: from any chat state, upsertConversation(c) applied twice with the same record
\* gives the state that applying it once gives.
C9_UpsertIdempotent ==
    \A c \in ConversationRecords :
        LET once == chatReducer(state.chat, Action("chat/upsertConversation", c))
        IN ~once.threw =>
            chatReducer(once.state, Action("chat/upsertConversation", c)) = once

\* C9 witness: upsertConversation has merged a record into the existing entry of
\* its id, in place.
C9_Witness ==
    /\ call = [api |-> "chat.upsertConversation", args |-> <<CA2>>]
    /\ state.chat.conversations = <<Merge(CA, CA2), CB>>

\* C10: setMessages(id, M), with a conversation id and an array M, leaves
\* messagesByConvId[id] equal to M element for element and every other entry as it was.
C10_SetMessagesRoundTrip ==
    [][(/\ call'.api = "chat.setMessages"
        /\ ToBoolean(call'.args[1])
        /\ IsArray(call'.args[2]))
       => LET key == PropertyKey(call'.args[1])
              before == state.chat.messagesByConvId
              after == state'.chat.messagesByConvId
          IN /\ DOMAIN after = DOMAIN before \cup {key}
             /\ after[key] = call'.args[2].v
             /\ \A k \in DOMAIN before \ {key} : after[k] = before[k]]_vars

\* C10 witness: setMessages(c1, [m1, m2]) has run while c2 holds messages of its own.
C10_Witness ==
    /\ call = [api |-> "chat.setMessages", args |-> <<Str("c1"), Arr(<<M1, M2>>)>>]
    /\ state.chat.messagesByConvId = [k \in {"c1", "c2"} |->
                                        IF k = "c1" THEN <<M1, M2>> ELSE <<M2>>]

\* C11: reset() of the chat slice leaves conversations empty, messagesByConvId empty,
\* activeConversationId null, loading false, error null and unreadByConvId empty;
\* reset() of the swipe slice leaves queue empty, index 0, loading false, error null and
\* lastAction null. From every state the RESET actions reduce to exactly these values.
C11_ResetRestoresDefaults ==
    LET chatDefaults ==
            [conversations |-> <<>>, messagesByConvId |-> [k \in {} |-> <<>>],
             activeConversationId |-> Null, loading |-> FALSE, error |-> Null,
             unreadByConvId |-> [k \in {} |-> 0]]
        swipeDefaults ==
            [queue |-> <<>>, index |-> 0, loading |-> FALSE, error |-> Null,
             lastAction |-> Null]
    IN /\ call.api = "chat.reset" => state.chat = chatDefaults
       /\ call.api = "swipe.reset" => state.swipe = swipeDefaults
       /\ chatReducer(state.chat, Action("chat/reset", Undefined)) = Ret(chatDefaults)
       /\ swipeReducer(state.swipe, Action("swipe/reset", Undefined)) = Ret(swipeDefaults)

\* C11 witness: the chat slice has been reset in a store whose swipe slice still holds
\* a queue and a position in it.
C11_Witness ==
    /\ call.api = "chat.reset"
    /\ state.chat = initialChatState
    /\ state.swipe.queue = <<P1, P2>>
    /\ state.swipe.index = 1

\* C12: a response with a non-success status makes request() reject with an error whose
\* status is the response's status and whose data is the payload: the parsed JSON when
\* the content type is JSON, else the raw text, null when there is neither.
C12_StatusErrorCarriesPayload ==
    (http.pc = "rejected" /\ http.cause = "status") =>
        /\ Prop(http.result, "status") = Num(http.res.status)
        /\ Prop(http.result, "data") =
                IF http.res.contentType = Str("application/json")
                THEN (IF http.res.body.kind = "json"
                      THEN Obj([error |-> Str("not found")]) ELSE Null)
                ELSE (IF http.res.body.kind \in {"json", "text"}
                      THEN Str(http.res.body.text) ELSE Null)

\* C12 witness: a 404 with the JSON body {"error":"not found"} has been rejected.
C12_Witness ==
    /\ http.pc = "rejected"
    /\ http.cause = "status"
    /\ http.res.status = 404
    /\ http.res.contentType = Str("application/json")
    /\ http.result = Obj([name |-> Str("Error"), message |-> Str("HTTP error"),
                          status |-> Num(404),
                          data |-> Obj([error |-> Str("not found")])])

\* C18: send(payload) returns false and hands nothing to the socket unless the socket
\* exists and is OPEN (so not before connect(), while connecting, or once closing or
\* closed); a send that returns true was made on an open socket and transmitted the
\* payload, a string verbatim and an object as its JSON text. send() leaves the socket
\* as it was.
C18_SendOnlyWhenOpen ==
    wsClient.last.op = "send" =>
        LET r == wsClient.last
        IN /\ wsClient.c.ws # "OPEN" => (r.ret = FALSE /\ r.tx = Null)
           /\ r.ret = FALSE => r.tx = Null
           /\ r.ret = TRUE =>
                /\ wsClient.c.ws = "OPEN"
                /\ r.payload = Str("ping") => r.tx = Str("ping")
                /\ r.payload = Obj([type |-> Str("typing")]) =>
                        r.tx = Str("{\"type\":\"typing\"}")

\* C18 witness: send() has been refused on a client whose one socket has closed.
C18_Witness ==
    /\ wsClient.last.op = "send"
    /\ wsClient.last.ret = FALSE
    /\ wsClient.c.ws = "CLOSED"
    /\ wsClient.c.constructed = 1

\* C18 witness of the other side: an object has been sent on an open socket.
C18_WitnessOpen ==
    /\ wsClient.last.op = "send"
    /\ wsClient.last.ret = TRUE
    /\ wsClient.last.tx = Str("{\"type\":\"typing\"}")
    /\ wsClient.c.ws = "OPEN"

C19_WitnessRepeated ==
    /\ wsClient.last = [op |-> "connect", ret |-> TRUE]
    /\ wsClient.c.ws = "OPEN"
    /\ wsClient.c.constructed = 1

ScreenMode(scr) ==
    IF scr.wsClientRef # "null" THEN "Realtime"
    ELSE IF scr.pollTimerRef # "null" THEN "Polling" ELSE "None"

\* C13: a mounted chat screen never holds both a WebSocket client and a polling
\* interval, and which of the two it holds does not change while it stays mounted,
\* changes of conversation included.
C13_RealtimeXorPolling ==
    /\ [](screen.mounted =>
            /\ ~(screen.wsClientRef # "null" /\ screen.pollTimerRef # "null")
            /\ ~(screen.effect.hasClient /\ screen.effect.timer = "active")
            /\ ScreenMode(screen) # "None")
    /\ [][(screen.mounted /\ screen'.mounted) =>
                ScreenMode(screen') = ScreenMode(screen)]_vars

\* C13 witness: a screen in the realtime state has moved from conversation c1 to c2
\* and holds a client, and no interval, for c2.
C13_Witness ==
    /\ screen.mounted
    /\ screen.conversationId = Str("c2")
    /\ screen.previous.conv = Str("c1")
    /\ screen.previous.hasClient
    /\ screen.wsClientRef = "effect"
    /\ screen.effect.client.subscribers = <<"c2">>
    /\ screen.pollTimerRef = "null"

\* C14: once the screen has unmounted or moved to another conversation, the callback
\* subscribed for the previous conversation is no longer subscribed, its socket has
\* been asked to close and its interval is cleared; no subscription callback and no
\* tick of the previous run of the effect runs afterwards; the refs hold nothing after
\* an unmount and only what the current conversation's run created otherwise.
C14_CleanupReleasesEverything ==
    /\ \A i \in 1..Len(screen.previous.client.subscribers) :
            screen.previous.client.subscribers[i] # Handler(screen.previous.conv)
    /\ screen.previous.client.ws \notin {"CONNECTING", "OPEN"}
    /\ screen.previous.timer # "active"
    /\ ~screen.ran.stale
    /\ ~screen.mounted =>
            /\ screen.wsClientRef = "null"
            /\ screen.pollTimerRef = "null"
            /\ screen.effect = NoEffect
    /\ screen.mounted => screen.effect.conv = screen.conversationId

\* C14 witness: the screen has left c1, whose socket was open and is now closing, for
\* c2, and a frame has since been handled by the callback of c2.
C14_Witness ==
    /\ screen.mounted
    /\ screen.conversationId = Str("c2")
    /\ screen.previous.conv = Str("c1")
    /\ screen.previous.client.ws = "CLOSING"
    /\ screen.previous.client.constructed = 1
    /\ screen.ran = [kind |-> "message", conv |-> Str("c2"), stale |-> FALSE]

\* C14 witness of the polling state: the screen has unmounted and the interval of the
\* conversation it showed, which had ticked, is cleared.
C14_WitnessPolling ==
    /\ ~screen.mounted
    /\ screen.previous.timer = "cleared"
    /\ screen.ran.kind = "tick"
    /\ screen.ran.conv = screen.previous.conv

\* C17: a mounted chat screen without a usable WebSocket (realtime flag off, WS base
\* empty, platform without WebSocket, or connect() having returned false) has its
\* polling interval active.
C17_PollingWithoutWebSocket ==
    (/\ screen.mounted
     /\ (~screen.env.realtime \/ screen.env.wsBase = Str("")
         \/ ~screen.env.hasWebSocket \/ ~screen.effect.connected))
    => (screen.pollTimerRef # "null" /\ screen.effect.timer = "active")

C15_WitnessSucceeded ==
    /\ screen.send.phase = "succeeded"
    /\ Len(MessagesOf(state, screen.send.conv)) = 2
    /\ Prop(MessagesOf(state, screen.send.conv)[2], "id") = Str("m9")

\* C16: once a send has failed, the conversation's list holds no entry of that send
\* with status 'sending'.
C16_FailedSendRolledBack ==
    screen.send.phase = "failed" =>
        LET list == MessagesOf(state, screen.send.conv)
        IN \A i \in 1..Len(list) :
            ~(/\ Prop(list[i], "id") = Str(screen.send.tempId)
              /\ Prop(list[i], "status") = Str("sending"))

\* C24: like(targetId) and pass(targetId) leave lastAction equal to {action, targetId}
\* of this call, whatever it held, and move index forward by one, clamped to
\* max(len(queue) - 1, 0): on the last card, and on an empty queue, index stays; no call
\* throws, wraps to 0, or changes queue, loading or error.
C24_LikePassRecordAndAdvance ==
    [][call'.api \in {"swipe.like", "swipe.pass"} =>
        LET pre == state.swipe
            post == state'.swipe
            last == Max(Len(pre.queue) - 1, 0)
        IN /\ ~threw'
           /\ post.lastAction =
                Obj([action |-> Str(IF call'.api = "swipe.like" THEN "like" ELSE "pass"),
                     targetId |-> call'.args[1]])
           /\ pre.index < last => post.index = pre.index + 1
           /\ pre.index >= last => post.index = pre.index
           /\ post.queue = pre.queue
           /\ post.loading = pre.loading
           /\ post.error = pre.error]_vars

\* C24 witness: pass(p1) has moved the deck from the first card of three to the second,
\* with an error and a loading flag left as they were set.
C24_Witness ==
    /\ call = [api |-> "swipe.pass", args |-> <<Str("p1")>>]
    /\ state.swipe.lastAction = Obj([action |-> Str("pass"), targetId |-> Str("p1")])
    /\ Len(state.swipe.queue) = 3
    /\ state.swipe.index = 1
    /\ state.swipe.loading

\* C24 witness of the last card: like(p2) on the last of two cards has overwritten the
\* pass recorded before it and left the index where it was.
C24_WitnessLast ==
    /\ call = [api |-> "swipe.like", args |-> <<Str("p2")>>]
    /\ state.swipe.lastAction = Obj([action |-> Str("like"), targetId |-> Str("p2")])
    /\ state.swipe.queue = <<P1, P2>>
    /\ state.swipe.index = 1

\* C25: upsertConversation(conv) with a record whose id an entry already has leaves the
\* list as long as it was, every other entry as it was, and at the first such entry's
\* position an object that holds conv's value for every field of conv (a nested value
\* such as lastMessage as a whole) and the entry's value for every other field; with
\* an id no entry has, the list becomes conv followed by the entries in their order.
C25_UpsertMergesInPlaceOrPrepends ==
    [][(call'.api = "chat.upsertConversation" /\ ~threw') =>
        LET conv == call'.args[1]
            pre == state.chat.conversations
            post == state'.chat.conversations
            same == {i \in 1..Len(pre) : Prop(pre[i], "id") = Prop(conv, "id")}
        IN IF same # {}
           THEN LET at == CHOOSE i \in same : \A j \in same : i <= j
                IN /\ Len(post) = Len(pre)
                   /\ \A j \in 1..Len(pre) : j # at => post[j] = pre[j]
                   /\ post[at].t = "obj"
                   /\ DOMAIN post[at].v = DOMAIN pre[at].v \cup DOMAIN conv.v
                   /\ \A k \in DOMAIN conv.v : post[at].v[k] = conv.v[k]
                   /\ \A k \in DOMAIN pre[at].v \ DOMAIN conv.v :
                            post[at].v[k] = pre[at].v[k]
           ELSE /\ Len(post) = Len(pre) + 1
                /\ post[1] = conv
                /\ \A j \in 1..Len(pre) : post[j + 1] = pre[j]]_vars

\* C25 witness: the second record of c1 has been merged into the entry of c1, which
\* stands after c2: the entry keeps its title, gains the preview and holds the new
\* lastMessage without the ts of the old one.
C25_Witness ==
    /\ call = [api |-> "chat.upsertConversation", args |-> <<CA2>>]
    /\ state.chat.conversations =
            <<CB, Obj([id |-> Str("c1"), title |-> Str("A"), preview |-> Str("hi"),
                       lastMessage |-> Obj([text |-> Str("hi")])])>>

\* C25 witness of the insertion: c2 has been put in front of the entry of c1.
C25_WitnessInserted ==
    /\ call = [api |-> "chat.upsertConversation", args |-> <<CB>>]
    /\ state.chat.conversations = <<CB, CA>>

\* The amounts incrementUnread is called with: every integer a counter of the model holds.
Amounts == (0 - MaxUnread)..MaxUnread

\* C26: from every chat state and for every conversation id, incrementUnread(id, a)
\* followed by incrementUnread(id, b) gives the state that incrementUnread(id, a + b)
\* gives; a counter that is absent counts as 0 and an amount that is omitted as 1.
C26_IncrementUnreadAdditive ==
    \A id \in IdArgs :
        /\ \A a \in Amounts, b \in Amounts :
                LET first == Reduce(state, IncrementUnreadDispatches(id, Num(a)))
                IN Reduce(first.state, IncrementUnreadDispatches(id, Num(b)))
                   = Reduce(state, IncrementUnreadDispatches(id, Num(a + b)))
        /\ Reduce(state, IncrementUnreadDispatches(id, Undefined))
           = Reduce(state, IncrementUnreadDispatches(id, Num(1)))
        /\ \A a \in Amounts :
                (ToBoolean(id) /\ PropertyKey(id) \notin DOMAIN state.chat.unreadByConvId) =>
                    Reduce(state, IncrementUnreadDispatches(id, Num(a)))
                        .state.chat.unreadByConvId[PropertyKey(id)] = a

\* C26 witness: incrementUnread(c1) without an amount has been called on a counter
\* that an earlier call had created, and the counter holds their sum; c2 has none.
C26_Witness ==
    /\ call = [api |-> "chat.incrementUnread", args |-> <<Str("c1"), Undefined>>]
    /\ state.chat.unreadByConvId = [k \in {"c1"} |-> 2]

\* C27: every value stored in unreadByConvId is a non-negative integer, after any
\* sequence of incrementUnread, clearUnread, setActiveConversation and reset.
C27_UnreadNonNegative ==
    \A k \in DOMAIN state.chat.unreadByConvId :
        /\ state.chat.unreadByConvId[k] \in Int
        /\ state.chat.unreadByConvId[k] >= 0

\* C28: in the user, swipe and chat slice alike, setError(v) leaves error equal to v,
\* or to 'Unknown error' when v is null or undefined (and to v itself when v is another
\* falsy value), and loading false; setLoading(b) leaves loading equal to the boolean
\* value of b; neither changes any other field of the slice, and setLoading keeps error.
C28_SetErrorSetLoadingUniform ==
    [][\A slice \in {"user", "swipe", "chat"} :
        LET pre == state[slice]
            post == state'[slice]
        IN /\ call'.api = slice \o ".setError" =>
                post = [pre EXCEPT
                            !.error = IF call'.args[1] \in {Null, Undefined}
                                      THEN Str("Unknown error") ELSE call'.args[1],
                            !.loading = FALSE]
           /\ call'.api = slice \o ".setLoading" =>
                post = [pre EXCEPT !.loading = (call'.args[1] = Bool(TRUE))]]_vars

\* C28 witness: setLoading(true) has been called on the chat slice after an error was
\* set there, and the error is still held.
C28_Witness ==
    /\ call = [api |-> "chat.setLoading", args |-> <<Bool(TRUE)>>]
    /\ state.chat.loading
    /\ state.chat.error = Str("boom")

\* C28 witness of setError: setError(undefined) on the swipe slice has stored the
\* default text while the user slice is loading and holds an empty error text.
C28_WitnessDefault ==
    /\ call = [api |-> "swipe.setError", args |-> <<Undefined>>]
    /\ state.swipe.error = Str("Unknown error")
    /\ ~state.swipe.loading
    /\ state.user.loading
    /\ state.user.error = Str("")

\* The chat slice with the message lists it holds now and every other field set.
BusyChat ==
    [state.chat EXCEPT !.conversations = <<CA, CB>>,
                       !.activeConversationId = Str("c2"),
                       !.loading = TRUE,
                       !.error = Str("boom"),
                       !.unreadByConvId = [k \in {"c1", "c2"} |-> 2]]

\* C29: appendMessage(id, m) leaves messagesByConvId[id] equal to the list it held (the
\* empty list if it held none) followed by m, and prependMessages(id, ms) leaves it
\* equal to ms followed by the list it held; the lists of the other conversations and
\* every other field of the chat slice are as they were.
C29_AppendPrependFrame ==
    /\ [](\A id \in ConvIds :
            LET existing == Lookup(BusyChat.messagesByConvId, PropertyKey(id), <<>>)
            IN /\ \A m \in {M1, M2} :
                    chatReducer(BusyChat,
                        Action("chat/appendMessage",
                               Obj([conversationId |-> id, message |-> m])))
                    = Ret([BusyChat EXCEPT !.messagesByConvId =
                            [k \in DOMAIN @ \cup {PropertyKey(id)} |->
                                IF k = PropertyKey(id) THEN existing \o <<m>> ELSE @[k]]])
               /\ \A ms \in {<<>>, <<M2>>, <<M2, M1>>} :
                    chatReducer(BusyChat,
                        Action("chat/prependMessages",
                               Obj([conversationId |-> id, messages |-> Arr(ms)])))
                    = Ret([BusyChat EXCEPT !.messagesByConvId =
                            [k \in DOMAIN @ \cup {PropertyKey(id)} |->
                                IF k = PropertyKey(id) THEN ms \o existing ELSE @[k]]]))
    /\ [][LET key == PropertyKey(call'.args[1])
              before == state.chat.messagesByConvId
              after == state'.chat.messagesByConvId
              existing == IF key \in DOMAIN before THEN before[key] ELSE <<>>
          IN /\ (/\ call'.api = "chat.appendMessage"
                  /\ ToBoolean(call'.args[1])
                  /\ ToBoolean(call'.args[2])) =>
                    /\ DOMAIN after = DOMAIN before \cup {key}
                    /\ after[key] = existing \o <<call'.args[2]>>
                    /\ \A k \in DOMAIN before \ {key} : after[k] = before[k]
                    /\ state'.chat = [state.chat EXCEPT !.messagesByConvId = after]
             /\ (/\ call'.api = "chat.prependMessages"
                  /\ ToBoolean(call'.args[1])
                  /\ IsArray(call'.args[2])) =>
                    /\ DOMAIN after = DOMAIN before \cup {key}
                    /\ after[key] = call'.args[2].v \o existing
                    /\ \A k \in DOMAIN before \ {key} : after[k] = before[k]
                    /\ state'.chat = [state.chat EXCEPT !.messagesByConvId = after]]_vars

\* C29 witness: prependMessages(c1, [m2]) has put m2 before the m1 that c1 held, while
\* c2 holds a list of its own.
C29_Witness ==
    /\ call = [api |-> "chat.prependMessages", args |-> <<Str("c1"), Arr(<<M2>>)>>]
    /\ state.chat.messagesByConvId =
            [k \in {"c1", "c2"} |-> IF k = "c1" THEN <<M2, M1>> ELSE <<M2>>]

\* C29 witness of appendMessage: m1 has been put after the m2 that c2 held.
C29_WitnessAppended ==
    /\ call = [api |-> "chat.appendMessage", args |-> <<Str("c2"), M1>>]
    /\ state.chat.messagesByConvId =
            [k \in {"c1", "c2"} |-> IF k = "c2" THEN <<M2, M1>> ELSE <<M1>>]

\* Whether handler h is in the subscribers.
Subscribed(subs, h) == \E i \in 1..Len(subs) : subs[i] = h

\* C21: subscribe(handler) leaves the handler subscribed and every subscriber that
\* was there in place; the function it returns, once called, leaves the handler
\* unsubscribed and every other subscriber in place; a frame is delivered to the
\* handlers subscribed when it arrives and to no other, so a handler that has been
\* unsubscribed gets none until it is subscribed again; nothing but subscribe, its
\* unsubscribe function and a handler unsubscribing itself changes the subscribers.
C21_UnsubscribeStopsOnlyThatHandler ==
    [][LET pre == wsClient.c.subscribers
           post == wsClient'.c.subscribers
           l == wsClient'.last
       IN /\ (l.op = "subscribe" /\ l.handler \in Handlers) =>
                /\ Subscribed(post, l.handler)
                /\ \A h \in Handlers \ {l.handler} : Subscribed(post, h) = Subscribed(pre, h)
          /\ l.op = "unsubscribe" =>
                /\ ~Subscribed(post, l.handler)
                /\ \A h \in Handlers \ {l.handler} : Subscribed(post, h) = Subscribed(pre, h)
          /\ l.op = "message" =>
                /\ \A j \in 1..Len(l.called) : Subscribed(pre, l.called[j])
                /\ \A h \in Handlers :
                        Subscribed(pre, h) => \E j \in 1..Len(l.called) : l.called[j] = h
                /\ \A h \in Handlers :
                        Subscribed(post, h) = (Subscribed(pre, h) /\ Behaviour(h) # "once")
          /\ l.op \notin {"subscribe", "unsubscribe", "message"} => post = pre]_vars

\* C21 witness: the unsubscribe function of h1 has removed h1, subscribed first, from
\* an open client whose two other handlers are still subscribed in their order.
C21_Witness ==
    /\ wsClient.last = [op |-> "unsubscribe", handler |-> "h1", removed |-> TRUE]
    /\ wsClient.c.subscribers = <<"h2", "h3">>
    /\ wsClient.c.ws = "OPEN"

\* C21 witness of the delivery: a frame has reached h2, the only handler subscribed
\* when it arrived.
C21_WitnessDelivery ==
    /\ wsClient.last.op = "message"
    /\ wsClient.last.called = <<"h2">>
    /\ wsClient.c.subscribers = <<"h2">>

\* C22: on a client created where the platform has no WebSocket or the WS base is
\* empty, no socket is ever created, connect() and send() return false, and no call,
\* reading readyState included, throws.
C22_NoOpWithoutWebSocket ==
    (wsClient.created /\ (~wsClient.c.hasWebSocket \/ wsClient.c.wsBase = Str(""))) =>
        /\ wsClient.c.ws = "null"
        /\ wsClient.c.constructed = 0
        /\ wsClient.last.op = "connect" => wsClient.last.ret = FALSE
        /\ wsClient.last.op = "send" =>
                (wsClient.last.ret = FALSE /\ wsClient.last.tx = Null)
        /\ wsClient.last.op = "readyState" =>
                (~wsClient.last.threw /\ wsClient.last.value = "CLOSED")

\* C23: createWsClient leaves the client with a socket only if autoConnect was asked
\* for and the realtime flag is on; with either one false the client has no socket
\* when it is returned, and the first socket is constructed by a call of connect().
C23_AutoConnectNeedsFlag ==
    [][LET l == wsClient'.last
       IN /\ l.op = "create" =>
                /\ wsClient'.c.constructed > 0 => (l.autoConnect /\ l.realtimeEnabled)
                /\ ~(l.autoConnect /\ l.realtimeEnabled) =>
                        (wsClient'.c.ws = "null" /\ wsClient'.c.constructed = 0)
          /\ wsClient'.c.constructed # wsClient.c.constructed =>
                l.op \in {"create", "connect"}
          /\ (wsClient.c.ws = "null" /\ wsClient'.c.ws # "null") =>
                l.op \in {"create", "connect"}]_vars

\* C23 witness: a client asked to connect by itself has been created with the realtime
\* flag off, where a socket could have been constructed, and holds none.
C23_Witness ==
    /\ wsClient.last = [op |-> "create", autoConnect |-> TRUE, realtimeEnabled |-> FALSE]
    /\ wsClient.c.hasWebSocket
    /\ wsClient.c.wsBase = Str("wss://app.test")
    /\ wsClient.c.ws = "null"

\* C23 witness of the other side: a client created with both has a socket connecting.
C23_WitnessConnected ==
    /\ wsClient.last = [op |-> "create", autoConnect |-> TRUE, realtimeEnabled |-> TRUE]
    /\ wsClient.c.ws = "CONNECTING"
    /\ wsClient.c.constructed = 1

\* C30: in every reachable state the messages of every conversation stand in
\* chronological order: ts does not decrease along messagesByConvId[id].
C30_MessagesChronological ==
    \A k \in DOMAIN state.chat.messagesByConvId :
        LET list == state.chat.messagesByConvId[k]
        IN \A i \in 1..(Len(list) - 1) :
            /\ Prop(list[i], "ts").t = "num"
            /\ Prop(list[i + 1], "ts").t = "num"
            /\ Prop(list[i], "ts").v <= Prop(list[i + 1], "ts").v

\* An event the screen's subscription callback was called with, as the step's frame
\* carries it: the step is a frame arriving, not a request settling.
C31_Delivered ==
    /\ screen'.loading = screen.loading
    /\ screen'.frame.delivered
    /\ (state' # state \/ screen'.frame # screen.frame)

\* C31: an event delivered to the screen's subscription changes the chat state only
\* if it has a type and its conversationId is the id of the conversation on screen: a
\* message.created event with a message appends the one normalized message to that
\* conversation's list, a conversation.updated event with a conversation upserts the
\* normalized conversation, and every other event leaves the store as it was.
C31_EventsFilteredByConversation ==
    [][C31_Delivered =>
        LET payload == screen'.frame.data
            viewed == screen.conversationId
            key == PropertyKey(viewed)
            matches == /\ ToBoolean(payload)
                       /\ ToBoolean(Prop(payload, "type"))
                       /\ Prop(payload, "conversationId") = viewed
            created == /\ matches
                       /\ Prop(payload, "type") = Str("message.created")
                       /\ ToBoolean(Prop(payload, "message"))
            updated == /\ matches
                       /\ Prop(payload, "type") = Str("conversation.updated")
                       /\ ToBoolean(Prop(payload, "conversation"))
            existing == Lookup(state.chat.messagesByConvId, key, <<>>)
        IN /\ screen'.conversationId = viewed
           /\ ~threw'
           /\ state'.user = state.user
           /\ state'.swipe = state.swipe
           /\ created =>
                \E random \in Randoms, now \in Times :
                    state'.chat = [state.chat EXCEPT !.messagesByConvId =
                        Put(@, key, Append(existing,
                            normalizeMessage(Prop(payload, "message"), random, now)))]
           /\ updated =>
                state'.chat = UpsertConversation(state.chat,
                    normalizeConversation(Prop(payload, "conversation"))).state
           /\ (~created /\ ~updated) => state' = state]_vars

\* C31 witness: while c1 is on screen, its socket has delivered the message.created
\* event of c1 carrying m1, and c1's list ends with the normalized m1.
C31_Witness ==
    /\ screen.mounted
    /\ screen.conversationId = Str("c1")
    /\ screen.frame = [data |-> ParseOrRaw("{\"type\":\"message.created\",\"conversationId\":\"c1\",\"message\":m1}"),
                       delivered |-> TRUE]
    /\ "c1" \in DOMAIN state.chat.messagesByConvId
    /\ LET list == state.chat.messagesByConvId["c1"]
       IN /\ Len(list) >= 1
          /\ Prop(list[Len(list)], "id") = Str("m1")

\* C31 witness of a filtered event: while c2 is on screen its socket has delivered
\* the message.created event of c1, and the store holds no message at all.
C31_WitnessOtherConversation ==
    /\ screen.mounted
    /\ screen.conversationId = Str("c2")
    /\ screen.frame = [data |-> ParseOrRaw("{\"type\":\"message.created\",\"conversationId\":\"c1\",\"message\":m2}"),
                       delivered |-> TRUE]
    /\ state.chat = initialChatState

\* C31 witness of an upsert: the conversation.updated event of c1 has been delivered
\* while c1 is on screen, and the list of conversations holds c1.
C31_WitnessUpserted ==
    /\ screen.conversationId = Str("c1")
    /\ screen.frame = [data |-> ParseOrRaw("{\"type\":\"conversation.updated\",\"conversationId\":\"c1\",\"conversation\":c1}"),
                       delivered |-> TRUE]
    /\ Len(state.chat.conversations) = 1
    /\ Prop(state.chat.conversations[1], "id") = Str("c1")

\* A tick of the interval of `which` that leaves one more request in flight for the
\* conversation with key k.
C32_TickStartsFetch(which, k) ==
    /\ TimerFires
    /\ screen'.ran.kind = "tick"
    /\ screen'.ran.stale = (which = "previous")
    /\ screen'.loading[k] = screen.loading[k] + 1

\* C32: while the polling interval of a conversation is active a tick can fire and
\* start one more loadMessages() request however many are already in flight (up to
\* the most the exploration keeps), and every response that arrives replaces the
\* conversation's message list by its normalized, sorted messages.
C32_PollsOverlap ==
    /\ [](\A which \in {"effect", "previous"} :
            LET k == PropertyKey(screen[which].conv)
            IN (/\ screen[which].timer = "active"
                /\ k \in DOMAIN screen.loading
                /\ screen.loading[k] < MaxLoads)
               => ENABLED C32_TickStartsFetch(which, k))
    /\ [][\A k \in DOMAIN screen.loading :
            (/\ screen'.loading[k] = screen.loading[k] - 1
             /\ call'.api = "chat.setMessages"
             /\ call'.args[1] = Str(k)
             /\ (call' # call \/ state' # state))
            => /\ k \in DOMAIN state'.chat.messagesByConvId
               /\ state'.chat.messagesByConvId[k] = call'.args[2].v
               /\ \E b \in ListBodies, random \in Randoms, now \in Times :
                    call'.args[2].v = NormalizedList(ListOf(ListResponse(b)), random, now)]_vars

\* C32 witness: in polling mode, after the initial load has started, two
\* loadMessages() requests for c1 are in flight at once and the last of them was
\* started by a tick.
C32_Witness ==
    /\ screen.mounted
    /\ ~screen.initialLoad
    /\ screen.effect.timer = "active"
    /\ screen.effect.conv = Str("c1")
    /\ screen.ran.kind = "tick"
    /\ screen.loading["c1"] = 2

\* C32 witness of a replacement: a response has replaced the list of c1 by its two
\* messages while another request for c1 is still in flight.
C32_WitnessReplaced ==
    /\ call.api = "chat.setMessages"
    /\ call.args[1] = Str("c1")
    /\ screen.loading["c1"] = 1
    /\ "c1" \in DOMAIN state.chat.messagesByConvId
    /\ Len(state.chat.messagesByConvId["c1"]) = 2
    /\ state.chat.messagesByConvId["c1"] = call.args[2].v

\* C33: in every reachable state the messages of each conversation have pairwise
\* distinct ids.
C33_MessageIdsDistinct ==
    \A k \in DOMAIN state.chat.messagesByConvId :
        LET list == state.chat.messagesByConvId[k]
        IN \A i, j \in 1..Len(list) :
            Prop(list[i], "id") = Prop(list[j], "id") => i = j

\* C34: while a send is awaiting its response, the list of the conversation it was
\* sent in holds the optimistic entry handleSend appended.
C34_OptimisticSurvivesRefresh ==
    screen.send.phase = "awaiting" =>
        \E i \in 1..Len(MessagesOf(state, screen.send.conv)) :
            MessagesOf(state, screen.send.conv)[i] = screen.send.optimistic

\* C35: swipe.loading is TRUE exactly while a recommendations load of the deck is in
\* flight.
C35_LoadingWhileInFlight ==
    state.swipe.loading <=> deck.pending # {}

\* C36: the loads store their queues in the order they were issued, and once every
\* load has settled the queue is the one the load issued last obtained.
C36_StaleResponseNotApplied ==
    /\ \A i, j \in 1..Len(deck.applied) :
            i < j => deck.applied[i].load < deck.applied[j].load
    /\ (deck.pending = {} /\ deck.issued > 0) =>
            \E i \in 1..Len(deck.applied) :
                /\ deck.applied[i].load = deck.issued
                /\ state.swipe.queue = deck.applied[i].queue

\* C37: no handler of a socket the client has replaced runs: every event that
\* reaches the client's callbacks and subscribers comes from the socket it holds.
C37_OnlyHeldSocketCallsBack ==
    wsClient.last.op # "previousClosed"

\* C38: when a request() call has settled, resolved or rejected, the timer it armed
\* is not pending: it has been cleared, or it has fired and caused the rejection.
C38_TimerClearedOnExit ==
    http.pc \in {"resolved", "rejected"} =>
        /\ http.timer \in {"none", "cleared", "fired"}
        /\ http.timer = "fired" => http.cause = "timeout"

\* C38 witness: a call with a timeout was rejected by a network failure and its timer
\* is cleared.
C38_Witness ==
    /\ http.pc = "rejected"
    /\ http.cause = "network"
    /\ http.timer = "cleared"

\* C38 witness of the success path: the call resolved and its timer is cleared.
C38_WitnessResolved ==
    /\ http.pc = "resolved"
    /\ http.timer = "cleared"

\* C38 witness of the non-success path.
C38_WitnessStatus ==
    /\ http.pc = "rejected"
    /\ http.cause = "status"
    /\ http.timer = "cleared"

\* C38 witness of the abort path: the timer fired and the call was rejected for it.
C38_WitnessAborted ==
    /\ http.pc = "rejected"
    /\ http.cause = "timeout"
    /\ http.timer = "fired"

\* C39: a request() call made with a positive timeout, once under way, eventually
\* resolves or rejects.
C39_RequestSettles ==
    (http.pc \in {"fetching", "parsing"} /\ http.timer # "none")
        ~> (http.pc \in {"resolved", "rejected"})

\* C40: the modal is closed by a save only once the backend call of that save has
\* succeeded, and when the backend call has failed the user slice's error is the
\* onboarding failure message.
C40_SaveObservesBackendFailure ==
    /\ modal.closedBy = "save" => modal.update = "resolved"
    /\ modal.update = "rejected" =>
            state.user.error = Str("Failed to save onboarding. Please try again.")

====
